---------------------------- MODULE Spec2Model ----------------------------
(***************************************************************************)
(* Sentinel Worlds I: Future Magic save game editor (src/main.py, gui.py). *)
(*                                                                         *)
(* A file is a record [kind, readable, writable, ioerr, size, data]: data   *)
(* maps the observed addresses of the file to the byte stored there, NoByte*)
(* for an address at or past the end of the file.  Python strings are      *)
(* sequences of code points, byte strings are sequences of 0..255.         *)
(***************************************************************************)
EXTENDS Integers, Sequences, FiniteSets, TLC

VARIABLES
    disk,            \* path -> file record, or NoFile
    dirs,            \* directory name -> is it writable (os.access W_OK)
    save_game_data,  \* main.save_game_data
    app_state,       \* main.app_state
    gui,             \* SentinelWorldsEditor: has_changes, current_file, alive
    pc,              \* where the run is: which program, which stage
    last,            \* the last call made and what it returned
    hist             \* what the run has done so far (for the temporal claims)

vars == <<disk, dirs, save_game_data, app_state, gui, pc, last, hist>>

(***************************************************************************)
(* Bounds of the model.                                                    *)
(***************************************************************************)
MaxWidth == 3        \* widths num_bytes tried by the codec specification
BufMax == 5          \* addresses 0..BufMax-1 of the codec buffer
MaxEdits == 1        \* editors run in one session

(***************************************************************************)
(* Small helpers.                                                          *)
(***************************************************************************)
Min(a, b) == IF a < b THEN a ELSE b
Max(a, b) == IF a > b THEN a ELSE b

RECURSIVE Pow(_, _)
Pow(b, e) == IF e <= 0 THEN 1 ELSE b * Pow(b, e - 1)

NoByte == -1

(***************************************************************************)
(* The file object: seek + read, seek + write.                             *)
(***************************************************************************)
\* file_handle.seek(address); file_handle.read(n): the bytes that exist.
\* f.read as it would be after a seek one byte too far
FileRead_shifted(f, address, n) ==
    [i \in 1..Min(n, Max(0, f.size - address - 1)) |-> f.data[address + i]]

FileRead(f, address, n) ==
    [i \in 1..Min(n, Max(0, f.size - address)) |-> f.data[address + i - 1]]

\* The bytes stored one after the other from address on (an address that
\* is not observed holds nothing to update).
RECURSIVE StoreBytes(_, _, _, _)
StoreBytes(data, address, bytes, i) ==
    IF i > Len(bytes) THEN data
    ELSE StoreBytes(IF address + i - 1 \in DOMAIN data
                      THEN [data EXCEPT ![address + i - 1] = bytes[i]]
                      ELSE data,
                    address, bytes, i + 1)

\* file_handle.seek(address); file_handle.write(bytes): the bytes land at
\* address.., a hole between the old end and address reads as zero.
FileWrite(f, address, bytes) ==
    IF Len(bytes) = 0 THEN f
    ELSE LET newsize == Max(f.size, address + Len(bytes))
             grown == IF newsize = f.size THEN f.data
                      ELSE [x \in DOMAIN f.data |->
                              IF x >= f.size /\ x < newsize THEN 0 ELSE f.data[x]]
         IN [f EXCEPT !.size = newsize,
                      !.data = StoreBytes(grown, address, bytes, 1)]

(***************************************************************************)
(* int.from_bytes / int.to_bytes, byteorder='little'.                      *)
(***************************************************************************)
RECURSIVE from_bytes(_)
from_bytes(bytes) ==
    IF Len(bytes) = 0 THEN 0 ELSE bytes[1] + 256 * from_bytes(Tail(bytes))

\* The mutant of to_bytes that stores the most significant byte first.
to_bytes_big(value, num_bytes) ==
    [i \in 1..num_bytes |-> (value \div Pow(256, num_bytes - i)) % 256]

to_bytes(value, num_bytes) ==
    [i \in 1..num_bytes |-> (value \div Pow(256, i - 1)) % 256]

(***************************************************************************)
(* LOW-LEVEL FILE I/O OPERATIONS (main.py).  Each returns the exception    *)
(* raised ("none" when it returns normally) with its result.               *)
(***************************************************************************)
read_bytes(fh, address, num_bytes) ==
    IF num_bytes < 1 THEN [exc |-> "ValueError", val |-> 0]
    ELSE LET bytes_data == FileRead(fh, address, num_bytes)
         IN IF Len(bytes_data) # num_bytes
              THEN [exc |-> "IOError", val |-> 0]
              ELSE [exc |-> "none", val |-> from_bytes(bytes_data)]

\* The mutant of write_bytes that writes one byte more than num_bytes.
write_bytes_wide(fh, address, value, num_bytes) ==
    IF num_bytes < 1 THEN [exc |-> "ValueError", fh |-> fh]
    ELSE IF ~(0 <= value /\ value <= Pow(256, num_bytes) - 1)
      THEN [exc |-> "ValueError", fh |-> fh]
    ELSE [exc |-> "none",
          fh |-> FileWrite(fh, address, to_bytes(value, num_bytes + 1))]

\* The mutant of write_bytes that checks the range after it has written.
write_bytes_late(fh, address, value, num_bytes) ==
    IF num_bytes < 1 THEN [exc |-> "ValueError", fh |-> fh]
    ELSE IF ~(0 <= value /\ value <= Pow(256, num_bytes) - 1)
      THEN [exc |-> "ValueError",
            fh |-> FileWrite(fh, address, to_bytes(value, num_bytes))]
    ELSE [exc |-> "none",
          fh |-> FileWrite(fh, address, to_bytes(value, num_bytes))]

write_bytes(fh, address, value, num_bytes) ==
    IF num_bytes < 1 THEN [exc |-> "ValueError", fh |-> fh]
    ELSE LET max_value == Pow(256, num_bytes) - 1
         IN IF ~(0 <= value /\ value <= max_value)
              THEN [exc |-> "ValueError", fh |-> fh]
              ELSE [exc |-> "none",
                    fh |-> FileWrite(fh, address, to_bytes(value, num_bytes))]

(***************************************************************************)
(* Python str/bytes conversions used by read_string and write_string.      *)
(***************************************************************************)
REPLACEMENT_CHAR == 65533    \* U+FFFD, what errors='replace' decodes to
SPACE == 32

\* bytes.decode('ascii', errors='replace')
decode_ascii_replace(bytes) ==
    [i \in 1..Len(bytes) |-> IF bytes[i] < 128 THEN bytes[i] ELSE REPLACEMENT_CHAR]

\* str.isspace() of one code point (of those decode_ascii_replace yields)
isspace(ch) == ch \in {9, 10, 11, 12, 13, 28, 29, 30, 31, 32}

\* str.rstrip(): trailing whitespace removed
RECURSIVE rstrip(_)
rstrip(s) ==
    IF Len(s) = 0 THEN s
    ELSE IF isspace(s[Len(s)]) THEN rstrip(SubSeq(s, 1, Len(s) - 1))
    ELSE s

\* str.ljust(length): padded on the right with spaces, never cut
ljust(s, length) ==
    IF Len(s) >= length THEN s
    ELSE s \o [i \in 1..(length - Len(s)) |-> SPACE]

\* str.encode('ascii') raises UnicodeEncodeError (a ValueError) on a code
\* point past 127
encodable_ascii(s) == \A i \in 1..Len(s) : s[i] < 128

\* The mutant of read_string that returns the padding with the text.
read_string_unstripped(fh, address, length) ==
    LET bytes_data == FileRead(fh, address, length)
    IN IF Len(bytes_data) # length
         THEN [exc |-> "IOError", val |-> <<>>]
         ELSE [exc |-> "none", val |-> decode_ascii_replace(bytes_data)]

read_string(fh, address, length) ==
    LET bytes_data == FileRead(fh, address, length)
    IN IF Len(bytes_data) # length
         THEN [exc |-> "IOError", val |-> <<>>]
         ELSE [exc |-> "none", val |-> rstrip(decode_ascii_replace(bytes_data))]

\* The mutant of write_string that writes the text without the padding.
write_string_unpadded(fh, address, value, length) ==
    IF Len(value) > length THEN [exc |-> "ValueError", fh |-> fh]
    ELSE IF ~encodable_ascii(value)
      THEN [exc |-> "ValueError", fh |-> fh]
      ELSE [exc |-> "none", fh |-> FileWrite(fh, address, value)]

write_string(fh, address, value, length) ==
    IF Len(value) > length THEN [exc |-> "ValueError", fh |-> fh]
    ELSE LET padded_string == ljust(value, length)
         IN IF ~encodable_ascii(padded_string)
              THEN [exc |-> "ValueError", fh |-> fh]
              ELSE [exc |-> "none", fh |-> FileWrite(fh, address, padded_string)]

(***************************************************************************)
(* Paths.  A path is [dir, base]: os.path.dirname and os.path.basename are *)
(* its two fields; base is a Python string (code points).                  *)
(***************************************************************************)
\* The characters the sampled file names are made of, as text.
Chr(cp) ==
    CASE cp = 10 -> "\n"
      [] cp = 46 -> "."
      [] cp = 49 -> "1"
      [] cp = 65 -> "A"
      [] cp = 66 -> "B"
      [] cp = 69 -> "E"
      [] cp = 70 -> "F"
      [] cp = 71 -> "G"
      [] cp = 77 -> "M"
      [] cp = 97 -> "a"
      [] cp = 98 -> "b"
      [] cp = 101 -> "e"
      [] cp = 102 -> "f"
      [] cp = 103 -> "g"
      [] cp = 107 -> "k"
      [] cp = 109 -> "m"
      [] cp = 115 -> "s"
      [] cp = 118 -> "v"
      [] cp = 120 -> "x"
      [] cp = 8490 -> "<U+212A>"
      [] OTHER -> "?"

RECURSIVE StrOf(_)
StrOf(s) == IF Len(s) = 0 THEN "" ELSE Chr(s[1]) \o StrOf(Tail(s))

PathStr(p) == IF p.dir = "" THEN StrOf(p.base) ELSE p.dir \o "/" \o StrOf(p.base)

\* filepath + '.bak'
BakPath(p) == [dir |-> p.dir, base |-> p.base \o <<46, 98, 97, 107>>]

\* str.lower(): A-Z, and KELVIN SIGN (U+212A) which lowercases to k; every
\* other sampled character is its own lowercase.
lower(s) ==
    [i \in 1..Len(s) |->
        IF s[i] >= 65 /\ s[i] <= 90 THEN s[i] + 32
        ELSE IF s[i] = 8490 THEN 107
        ELSE s[i]]

\* re.match(r'^game[a-z]\.fm$', filename): $ matches at the end and also
\* just before a newline that ends the string.
match_game_fm(filename) ==
    LET n == Len(filename)
        body == IF n = 9 /\ filename[9] = 10 THEN SubSeq(filename, 1, 8) ELSE filename
    IN /\ Len(body) = 8
       /\ SubSeq(body, 1, 4) = <<103, 97, 109, 101>>      \* game
       /\ body[5] >= 97 /\ body[5] <= 122
       /\ SubSeq(body, 6, 8) = <<46, 102, 109>>           \* .fm

(***************************************************************************)
(* Constants of sw_constants.py that main.py's own text fixes.             *)
(***************************************************************************)
SENTINEL_SIGNATURE_ADDR == 12673       \* 0x3181
SENTINEL_SIGNATURE == <<83, 101, 110, 116, 105, 110, 101, 108>>  \* "Sentinel"
MAX_SAVE_FILE_SIZE == 16384            \* 16KB
MIN_SAVE_FILE_SIZE == 1024             \* the literal of the size check

(***************************************************************************)
(* FILE VALIDATION (main.py validate_save_file).  Returns <<valid, msg>>.  *)
(***************************************************************************)
\* The mutant that checks the signature before the file name, the order of
\* the docstring's list.
validate_save_file_sigfirst(d, filepath) ==
    LET f == d[filepath]
    IN IF f.kind = "none"
         THEN <<FALSE, "File not found: " \o PathStr(filepath)>>
       ELSE IF f.kind # "file"
         THEN <<FALSE, "Path is not a file: " \o PathStr(filepath)>>
       ELSE IF ~f.readable
         THEN <<FALSE, "File is not readable: " \o PathStr(filepath)>>
       ELSE IF f.size > MAX_SAVE_FILE_SIZE
         THEN <<FALSE, "File is too large (" \o ToString(f.size)
                        \o " bytes). Expected ~12KB, max 16KB.">>
       ELSE IF f.size < MIN_SAVE_FILE_SIZE
         THEN <<FALSE, "File is too small (" \o ToString(f.size)
                        \o " bytes). Likely not a valid save file.">>
       ELSE IF f.ioerr
         THEN <<FALSE, "Error reading file: " \o "[Errno 5] Input/output error">>
       ELSE IF FileRead(f, SENTINEL_SIGNATURE_ADDR, Len(SENTINEL_SIGNATURE))
                 # SENTINEL_SIGNATURE
         THEN <<FALSE, "File does not appear to be a valid Sentinel Worlds save file (signature mismatch)">>
       ELSE IF ~match_game_fm(lower(filepath.base))
         THEN <<FALSE, "Filename must match pattern 'gameX.fm' where X is A-Z (found: "
                        \o StrOf(filepath.base) \o ")">>
       ELSE IF ~(filepath.dir # "" /\ dirs[filepath.dir])
         THEN <<FALSE, "Directory is not writable: " \o filepath.dir
                        \o "\nCannot save changes or create backup files.">>
       ELSE <<TRUE, "">>

\* The mutant whose last check reports its failure with an empty message.
validate_save_file_silent(d, filepath) ==
    LET f == d[filepath]
    IN IF f.kind = "none"
         THEN <<FALSE, "File not found: " \o PathStr(filepath)>>
       ELSE IF f.kind # "file"
         THEN <<FALSE, "Path is not a file: " \o PathStr(filepath)>>
       ELSE IF ~f.readable
         THEN <<FALSE, "File is not readable: " \o PathStr(filepath)>>
       ELSE IF f.size > MAX_SAVE_FILE_SIZE
         THEN <<FALSE, "File is too large (" \o ToString(f.size)
                        \o " bytes). Expected ~12KB, max 16KB.">>
       ELSE IF f.size < MIN_SAVE_FILE_SIZE
         THEN <<FALSE, "File is too small (" \o ToString(f.size)
                        \o " bytes). Likely not a valid save file.">>
       ELSE IF ~match_game_fm(lower(filepath.base))
         THEN <<FALSE, "Filename must match pattern 'gameX.fm' where X is A-Z (found: "
                        \o StrOf(filepath.base) \o ")">>
       ELSE IF f.ioerr
         THEN <<FALSE, "Error reading file: " \o "[Errno 5] Input/output error">>
       ELSE IF FileRead(f, SENTINEL_SIGNATURE_ADDR, Len(SENTINEL_SIGNATURE))
                 # SENTINEL_SIGNATURE
         THEN <<FALSE, "File does not appear to be a valid Sentinel Worlds save file (signature mismatch)">>
       ELSE IF ~(filepath.dir # "" /\ dirs[filepath.dir])
         THEN <<FALSE, "">>
       ELSE <<TRUE, "">>

validate_save_file(d, filepath) ==
    LET f == d[filepath]
    IN \* Check file exists
       IF f.kind = "none"
         THEN <<FALSE, "File not found: " \o PathStr(filepath)>>
       \* Check it's actually a file (not a directory)
       ELSE IF f.kind # "file"
         THEN <<FALSE, "Path is not a file: " \o PathStr(filepath)>>
       \* Check file is readable
       ELSE IF ~f.readable
         THEN <<FALSE, "File is not readable: " \o PathStr(filepath)>>
       \* Check file size
       ELSE IF f.size > MAX_SAVE_FILE_SIZE
         THEN <<FALSE, "File is too large (" \o ToString(f.size)
                        \o " bytes). Expected ~12KB, max 16KB.">>
       ELSE IF f.size < MIN_SAVE_FILE_SIZE
         THEN <<FALSE, "File is too small (" \o ToString(f.size)
                        \o " bytes). Likely not a valid save file.">>
       \* Check filename matches pattern gameX.fm
       ELSE IF ~match_game_fm(lower(filepath.base))
         THEN <<FALSE, "Filename must match pattern 'gameX.fm' where X is A-Z (found: "
                        \o StrOf(filepath.base) \o ")">>
       \* Check file has correct signature at 0x3181
       ELSE IF f.ioerr
         THEN <<FALSE, "Error reading file: " \o "[Errno 5] Input/output error">>
       ELSE IF FileRead(f, SENTINEL_SIGNATURE_ADDR, Len(SENTINEL_SIGNATURE))
                 # SENTINEL_SIGNATURE
         THEN <<FALSE, "File does not appear to be a valid Sentinel Worlds save file (signature mismatch)">>
       \* Check directory is writable
       ELSE IF ~(filepath.dir # "" /\ dirs[filepath.dir])
         THEN <<FALSE, "Directory is not writable: " \o filepath.dir
                        \o "\nCannot save changes or create backup files.">>
       ELSE <<TRUE, "">>

(***************************************************************************)
(* The address table.  sw_constants.py fixes the numbers; the layout here  *)
(* follows the save layout the specification describes: a party section,   *)
(* a ship section, five identical crew blocks.                             *)
(***************************************************************************)
PARTY_CASH_ADDR == 588
PARTY_CASH_LENGTH == 3
PARTY_LIGHT_ENERGY_ADDR == 575
SHIP_MOVE_ADDR == 13201
SHIP_TARGET_ADDR == 13202
SHIP_ENGINE_ADDR == 13203
SHIP_LASER_ADDR == 13204

CREW1_BASE == 449
CREW_STRIDE == 192
CREW_NAME_LENGTH == 15

CREW_NUMS == 1..5                         \* range(1, 6)
CHARACTERISTICS == <<"strength", "stamina", "dexterity", "comprehend", "charisma">>
ABILITIES == <<"contact", "edged", "projectile", "blaster", "tactics", "recon",
               "gunnery", "atv_repair", "mining", "athletics", "observation",
               "bribery">>
ONHAND_SLOTS == 1..3                      \* range(3), counted from 1
INVENTORY_SLOTS == 1..8                   \* range(8), counted from 1

IndexOf(seq, x) == CHOOSE i \in 1..Len(seq) : seq[i] = x
Range(seq) == {seq[i] : i \in 1..Len(seq)}

\* get_crew_addresses(): crew number -> the addresses of its fields, the
\* CREW<n>_..._ADDR constants of sw_constants.py
get_crew_addresses ==
    [crew_num \in CREW_NUMS |->
        LET base == CREW1_BASE + (crew_num - 1) * CREW_STRIDE
            armor == base + CREW_NAME_LENGTH + 2 + Len(CHARACTERISTICS) + Len(ABILITIES)
        IN [name |-> base,
            name_length |-> CREW_NAME_LENGTH,
            rank |-> base + CREW_NAME_LENGTH,
            hp |-> base + CREW_NAME_LENGTH + 1,
            characteristics |->
               [stat \in Range(CHARACTERISTICS) |->
                   base + CREW_NAME_LENGTH + 1 + IndexOf(CHARACTERISTICS, stat)],
            abilities |->
               [ability \in Range(ABILITIES) |->
                   base + CREW_NAME_LENGTH + 1 + Len(CHARACTERISTICS)
                       + IndexOf(ABILITIES, ability)],
            equipment |->
               [armor |-> armor,
                weapon |-> armor + 1,
                onhand_weapons_start |-> armor + 2,
                inventory_start |-> armor + 5]]]

(***************************************************************************)
(* DATA STRUCTURE MANAGEMENT (main.py).                                    *)
(***************************************************************************)
\* save_game_data = {} : the module's global before any load
EMPTY_DICT == [empty |-> TRUE]

initialize_save_data ==
    [party |-> [cash |-> 0, light_energy |-> 0],
     ship |-> [move |-> 0, target |-> 0, engine |-> 0, laser |-> 0],
     crew |-> [crew_num \in CREW_NUMS |->
                [name |-> <<>>,
                 rank |-> 0,
                 hp |-> 0,
                 characteristics |-> [stat \in Range(CHARACTERISTICS) |-> 0],
                 abilities |-> [ability \in Range(ABILITIES) |-> 0],
                 equipment |-> [armor |-> 0,
                                weapon |-> 0,
                                onhand_weapons |-> [i \in ONHAND_SLOTS |-> 0],
                                inventory |-> [i \in INVENTORY_SLOTS |-> 0]]]]]

\* The reads of load_save_game for one crew member, in the order made.
CrewReads(addrs) ==
    <<[kind |-> "string", addr |-> addrs.name, n |-> addrs.name_length],
      [kind |-> "bytes", addr |-> addrs.rank, n |-> 1],
      [kind |-> "bytes", addr |-> addrs.hp, n |-> 1]>>
    \o [i \in 1..Len(CHARACTERISTICS) |->
          [kind |-> "bytes", addr |-> addrs.characteristics[CHARACTERISTICS[i]], n |-> 1]]
    \o [i \in 1..Len(ABILITIES) |->
          [kind |-> "bytes", addr |-> addrs.abilities[ABILITIES[i]], n |-> 1]]
    \o <<[kind |-> "bytes", addr |-> addrs.equipment.armor, n |-> 1],
         [kind |-> "bytes", addr |-> addrs.equipment.weapon, n |-> 1]>>
    \o [i \in ONHAND_SLOTS |->
          [kind |-> "bytes", addr |-> addrs.equipment.onhand_weapons_start + (i - 1), n |-> 1]]
    \o [i \in INVENTORY_SLOTS |->
          [kind |-> "bytes", addr |-> addrs.equipment.inventory_start + (i - 1), n |-> 1]]

\* Every read of load_save_game, in the order made.
LoadReads ==
    LET crew_addrs == get_crew_addresses
    IN <<[kind |-> "bytes", addr |-> PARTY_CASH_ADDR, n |-> PARTY_CASH_LENGTH],
         [kind |-> "bytes", addr |-> PARTY_LIGHT_ENERGY_ADDR, n |-> 1],
         [kind |-> "bytes", addr |-> SHIP_MOVE_ADDR, n |-> 1],
         [kind |-> "bytes", addr |-> SHIP_TARGET_ADDR, n |-> 1],
         [kind |-> "bytes", addr |-> SHIP_ENGINE_ADDR, n |-> 1],
         [kind |-> "bytes", addr |-> SHIP_LASER_ADDR, n |-> 1]>>
       \o CrewReads(crew_addrs[1]) \o CrewReads(crew_addrs[2])
       \o CrewReads(crew_addrs[3]) \o CrewReads(crew_addrs[4])
       \o CrewReads(crew_addrs[5])

ReadExc(f, r) ==
    IF r.kind = "string" THEN read_string(f, r.addr, r.n).exc
    ELSE read_bytes(f, r.addr, r.n).exc

\* The values load_save_game stores, read by read_bytes and read_string.
LoadedData(f) ==
    LET crew_addrs == get_crew_addresses
    IN [party |-> [cash |-> read_bytes(f, PARTY_CASH_ADDR, PARTY_CASH_LENGTH).val,
                   light_energy |-> read_bytes(f, PARTY_LIGHT_ENERGY_ADDR, 1).val],
        ship |-> [move |-> read_bytes(f, SHIP_MOVE_ADDR, 1).val,
                  target |-> read_bytes(f, SHIP_TARGET_ADDR, 1).val,
                  engine |-> read_bytes(f, SHIP_ENGINE_ADDR, 1).val,
                  laser |-> read_bytes(f, SHIP_LASER_ADDR, 1).val],
        crew |-> [crew_num \in CREW_NUMS |->
            LET addrs == crew_addrs[crew_num]
            IN [name |-> read_string(f, addrs.name, addrs.name_length).val,
                rank |-> read_bytes(f, addrs.rank, 1).val,
                hp |-> read_bytes(f, addrs.hp, 1).val,
                characteristics |->
                    [stat \in Range(CHARACTERISTICS) |->
                        read_bytes(f, addrs.characteristics[stat], 1).val],
                abilities |->
                    [ability \in Range(ABILITIES) |->
                        read_bytes(f, addrs.abilities[ability], 1).val],
                equipment |->
                    [armor |-> read_bytes(f, addrs.equipment.armor, 1).val,
                     weapon |-> read_bytes(f, addrs.equipment.weapon, 1).val,
                     onhand_weapons |->
                        [i \in ONHAND_SLOTS |->
                            read_bytes(f, addrs.equipment.onhand_weapons_start + (i - 1), 1).val],
                     inventory |->
                        [i \in INVENTORY_SLOTS |->
                            read_bytes(f, addrs.equipment.inventory_start + (i - 1), 1).val]]]]]

\* The mutant of load_save_game that takes a short read for the value 0 and
\* returns the model all the same.
load_save_game_partial(d, filename) ==
    LET f == d[filename]
    IN IF f.kind = "none" THEN [exc |-> "FileNotFoundError", data |-> EMPTY_DICT]
       ELSE IF f.kind # "file" \/ ~f.readable \/ f.ioerr
         THEN [exc |-> "IOError", data |-> EMPTY_DICT]
       ELSE [exc |-> "none", data |-> LoadedData(f)]

\* load_save_game(filename): [exc, data].  open() raises when the file is
\* missing or unreadable; the first read that comes up short raises IOError
\* and nothing is returned.
load_save_game(d, filename) ==
    LET f == d[filename]
    IN IF f.kind = "none" THEN [exc |-> "FileNotFoundError", data |-> EMPTY_DICT]
       ELSE IF f.kind # "file" \/ ~f.readable \/ f.ioerr
         THEN [exc |-> "IOError", data |-> EMPTY_DICT]
       ELSE IF \E i \in 1..Len(LoadReads) : ReadExc(f, LoadReads[i]) # "none"
         THEN [exc |-> "IOError", data |-> EMPTY_DICT]
       ELSE [exc |-> "none", data |-> LoadedData(f)]

\* The writes of save_game for one crew member, in the order made.
CrewWrites(addrs, crew) ==
    <<[kind |-> "string", addr |-> addrs.name, value |-> crew.name, n |-> addrs.name_length],
      [kind |-> "bytes", addr |-> addrs.rank, value |-> crew.rank, n |-> 1],
      [kind |-> "bytes", addr |-> addrs.hp, value |-> crew.hp, n |-> 1]>>
    \o [i \in 1..Len(CHARACTERISTICS) |->
          [kind |-> "bytes", addr |-> addrs.characteristics[CHARACTERISTICS[i]],
           value |-> crew.characteristics[CHARACTERISTICS[i]], n |-> 1]]
    \o [i \in 1..Len(ABILITIES) |->
          [kind |-> "bytes", addr |-> addrs.abilities[ABILITIES[i]],
           value |-> crew.abilities[ABILITIES[i]], n |-> 1]]
    \o <<[kind |-> "bytes", addr |-> addrs.equipment.armor,
          value |-> crew.equipment.armor, n |-> 1],
         [kind |-> "bytes", addr |-> addrs.equipment.weapon,
          value |-> crew.equipment.weapon, n |-> 1]>>
    \o [i \in ONHAND_SLOTS |->
          [kind |-> "bytes", addr |-> addrs.equipment.onhand_weapons_start + (i - 1),
           value |-> crew.equipment.onhand_weapons[i], n |-> 1]]
    \o [i \in INVENTORY_SLOTS |->
          [kind |-> "bytes", addr |-> addrs.equipment.inventory_start + (i - 1),
           value |-> crew.equipment.inventory[i], n |-> 1]]

\* Every write of save_game, in the order made.
SaveWrites(data) ==
    LET crew_addrs == get_crew_addresses
    IN <<[kind |-> "bytes", addr |-> PARTY_CASH_ADDR, value |-> data.party.cash,
          n |-> PARTY_CASH_LENGTH],
         [kind |-> "bytes", addr |-> PARTY_LIGHT_ENERGY_ADDR,
          value |-> data.party.light_energy, n |-> 1],
         [kind |-> "bytes", addr |-> SHIP_MOVE_ADDR, value |-> data.ship.move, n |-> 1],
         [kind |-> "bytes", addr |-> SHIP_TARGET_ADDR, value |-> data.ship.target, n |-> 1],
         [kind |-> "bytes", addr |-> SHIP_ENGINE_ADDR, value |-> data.ship.engine, n |-> 1],
         [kind |-> "bytes", addr |-> SHIP_LASER_ADDR, value |-> data.ship.laser, n |-> 1]>>
       \o CrewWrites(crew_addrs[1], data.crew[1]) \o CrewWrites(crew_addrs[2], data.crew[2])
       \o CrewWrites(crew_addrs[3], data.crew[3]) \o CrewWrites(crew_addrs[4], data.crew[4])
       \o CrewWrites(crew_addrs[5], data.crew[5])

\* One write of save_game on the open file fh: [exc, fh].
WriteOne(fh, w) ==
    IF w.kind = "string" THEN write_string(fh, w.addr, w.value, w.n)
    ELSE write_bytes(fh, w.addr, w.value, w.n)

\* The writes lo..hi made one after the other on the open file; the first
\* that raises ends them, and what was written before it stays written.
\* (The range is halved so that the evaluation does not nest once per write.)
RECURSIVE ApplyWrites(_, _, _, _)
ApplyWrites(fh, writes, lo, hi) ==
    IF lo > hi THEN [exc |-> "none", fh |-> fh]
    ELSE IF lo = hi THEN WriteOne(fh, writes[lo])
    ELSE LET mid == (lo + hi) \div 2
             r == ApplyWrites(fh, writes, lo, mid)
         IN IF r.exc # "none" THEN r ELSE ApplyWrites(r.fh, writes, mid + 1, hi)

\* save_game(filename) on disk d with save_game_data = data and
\* app_state['has_changes'] = has_changes: [ret, disk, has_changes].  ret is
\* "True" or "False", or "KeyError" when save_game_data is still the empty
\* dict (an exception save_game does not catch).
\* save_game as it would be if it cleared the flag before writing
save_game_clearing(d, data, has_changes, filename) ==
    LET f == d[filename]
    IN IF f.kind # "file" \/ ~f.readable \/ ~f.writable \/ f.ioerr
         THEN [ret |-> "False", disk |-> d, has_changes |-> FALSE]
       ELSE IF data = EMPTY_DICT
         THEN [ret |-> "KeyError", disk |-> d, has_changes |-> FALSE]
       ELSE LET writes == SaveWrites(data)
                r == ApplyWrites(f, writes, 1, Len(writes))
            IN [ret |-> IF r.exc = "none" THEN "True" ELSE "False",
                disk |-> [d EXCEPT ![filename] = r.fh],
                has_changes |-> FALSE]

save_game(d, data, has_changes, filename) ==
    LET f == d[filename]
    IN IF f.kind # "file" \/ ~f.readable \/ ~f.writable \/ f.ioerr
         THEN [ret |-> "False", disk |-> d, has_changes |-> has_changes]
       ELSE IF data = EMPTY_DICT
         THEN [ret |-> "KeyError", disk |-> d, has_changes |-> has_changes]
       ELSE LET writes == SaveWrites(data)
                r == ApplyWrites(f, writes, 1, Len(writes))
            IN IF r.exc = "none"
                 THEN [ret |-> "True", disk |-> [d EXCEPT ![filename] = r.fh],
                       has_changes |-> FALSE]
                 ELSE [ret |-> "False", disk |-> [d EXCEPT ![filename] = r.fh],
                       has_changes |-> has_changes]

\* create_backup(filepath) with the outcome of the copy: "ok", or the file
\* system refuses to open the .bak ("open_fails"), or the write stops after
\* the .bak was opened and emptied ("write_fails").  [ret, disk].
\* create_backup as it would be if it moved the file aside before copying
\* it back: a failed write leaves the save file empty.
create_backup_moving(d, filepath, outcome) ==
    LET f == d[filepath]
        backup_path == BakPath(filepath)
        copy == [f EXCEPT !.readable = TRUE, !.writable = TRUE]
    IN IF f.kind # "file" \/ ~f.readable \/ f.ioerr \/ outcome = "open_fails"
         THEN [ret |-> FALSE, disk |-> d]
       ELSE IF outcome = "write_fails"
         THEN [ret |-> FALSE,
               disk |-> [d EXCEPT ![backup_path] = copy,
                                  ![filepath] = [f EXCEPT !.size = 0]]]
       ELSE [ret |-> TRUE, disk |-> [d EXCEPT ![backup_path] = copy]]

create_backup(d, filepath, outcome) ==
    LET f == d[filepath]
        backup_path == BakPath(filepath)
    IN IF f.kind # "file" \/ ~f.readable \/ f.ioerr
         THEN [ret |-> FALSE, disk |-> d]
       ELSE IF outcome = "open_fails"
         THEN [ret |-> FALSE, disk |-> d]
       ELSE IF outcome = "write_fails"
         THEN [ret |-> FALSE,
               disk |-> [d EXCEPT ![backup_path] =
                           [f EXCEPT !.size = 0,
                                     !.data = [x \in DOMAIN f.data |-> NoByte],
                                     !.readable = TRUE, !.writable = TRUE]]]
       ELSE [ret |-> TRUE,
             disk |-> [d EXCEPT ![backup_path] =
                         [f EXCEPT !.readable = TRUE, !.writable = TRUE]]]

(***************************************************************************)
(* Python text conversions used by the editors.  A text is a sequence of   *)
(* code points; the sampled texts are made of digits, letters, sign and    *)
(* blank (no '_' digit separators).                                        *)
(***************************************************************************)
\* str.upper() on the letters a-z
upper(s) == [i \in 1..Len(s) |-> IF s[i] >= 97 /\ s[i] <= 122 THEN s[i] - 32 ELSE s[i]]

\* the whitespace int() ignores round the number
RECURSIVE lstrip(_)
lstrip(s) ==
    IF Len(s) = 0 THEN s ELSE IF isspace(s[1]) THEN lstrip(Tail(s)) ELSE s

\* the value of one digit character, 99 for a character that is no digit
DigitVal(cp) ==
    IF cp >= 48 /\ cp <= 57 THEN cp - 48
    ELSE IF cp >= 97 /\ cp <= 102 THEN cp - 87
    ELSE IF cp >= 65 /\ cp <= 70 THEN cp - 55
    ELSE 99

RECURSIVE DigitsValue(_, _)
DigitsValue(s, base) ==
    IF Len(s) = 0 THEN 0
    ELSE DigitsValue(SubSeq(s, 1, Len(s) - 1), base) * base + DigitVal(s[Len(s)])

\* The number text without its sign, and without the 0x a base 16 number
\* may start with.
Unprefixed(t, base) ==
    LET u == IF Len(t) > 0 /\ t[1] \in {43, 45} THEN Tail(t) ELSE t
    IN IF base = 16 /\ Len(u) >= 2 /\ u[1] = 48 /\ u[2] \in {88, 120}
         THEN SubSeq(u, 3, Len(u)) ELSE u

\* The digits read in the base, negated after a minus sign.
IntOfDigits(body, negative, base) ==
    IF Len(body) = 0 \/ \E i \in 1..Len(body) : DigitVal(body[i]) >= base
      THEN [exc |-> "ValueError", val |-> 0]
      ELSE [exc |-> "none",
            val |-> IF negative THEN 0 - DigitsValue(body, base)
                    ELSE DigitsValue(body, base)]

IntOfStripped(t, base) ==
    IntOfDigits(Unprefixed(t, base), Len(t) > 0 /\ t[1] = 45, base)

\* int(text) and int(text, 16): [exc, val]; ValueError when text is not a
\* number in that base.  Base 16 takes an optional 0x prefix.
py_int(text, base) == IntOfStripped(rstrip(lstrip(text)), base)

\* hex(n) for n >= 0, as text of the display
RECURSIVE HexDigits(_)
HexDigits(n) ==
    (IF n < 16 THEN "" ELSE HexDigits(n \div 16))
        \o <<"0", "1", "2", "3", "4", "5", "6", "7",
             "8", "9", "a", "b", "c", "d", "e", "f">>[(n % 16) + 1]

hex(n) == "0x" \o HexDigits(n)

(***************************************************************************)
(* The limits of sw_constants.py the editors check against.                *)
(***************************************************************************)
MAX_CASH == 655359
MAX_LIGHT_ENERGY == 254
MAX_SHIP_SOFTWARE == 8
MAX_STAT == 254
MAX_HP == 125

(***************************************************************************)
(* The item catalog (inventory_constants.py).  The codes are those the     *)
(* file's comments give for the names of sw_constants.py.                  *)
(***************************************************************************)
EMPTY_SLOT == 255

\* <<code, format_item_name(constant name)>> in the order of ITEM_NAMES
ItemTable ==
    <<<<255, "Empty Slot">>, <<0, "Burbulator">>, <<1, "Ea Passcard">>,
      <<2, "Trinoculars">>, <<3, "Arisian Lens">>, <<5, "Energy Ball">>,
      <<7, "Book">>, <<57, "Holophones">>, <<58, "Vax Grapher">>,
      <<59, "Antique Yoyo">>, <<60, "Cryoscope">>, <<61, "Cyberdisk">>,
      <<62, "Szart Needle">>, <<63, "Knarlybar">>, <<32, "Tesselator">>,
      <<33, "Nanobot">>, <<34, "Mark V Teng">>, <<35, "Vadroxon">>,
      <<8, "Hands">>, <<28, "Claws">>, <<29, "Teeth">>,
      <<30, "Thrasher">>, <<31, "Acid Breath">>, <<9, "Powerfist">>,
      <<10, "Sonic Mace">>, <<11, "Gyro Pike">>, <<12, "Neuron Flail">>,
      <<13, "Dagger">>, <<14, "Cryo Cutlas">>, <<15, "Power Axe">>,
      <<16, "Energy Blade">>, <<17, "Edge Spinner">>, <<18, "Auto Pistol">>,
      <<19, "Shotgun">>, <<20, "Hyperuzi">>, <<21, "Ak 4700">>,
      <<22, "Gauss Rifle">>, <<23, "Thermocaster">>, <<24, "Hand Laser">>,
      <<25, "Lr Laser">>, <<26, "Plasma Gun">>, <<27, "Neutron Gun">>,
      <<55, "Nerf Cannon">>, <<4, "Mysterious Armor">>, <<6, "Ancient Armor">>,
      <<36, "Uniform">>, <<37, "Flight Jacket">>, <<38, "Steel Mesh">>,
      <<39, "Flak Jacket">>, <<40, "Laser Reflec">>, <<41, "Combat Armor">>,
      <<42, "Thick Skin">>, <<43, "Rough Skin">>, <<44, "Thick Fur">>,
      <<45, "Carbon Armor">>, <<46, "Civilian Clothes">>, <<47, "Special">>,
      <<56, "Kevlar Suit">>, <<48, "Auto Clip">>, <<49, "Shotgun Pack">>,
      <<50, "Hyperuzi Mag">>, <<51, "Gauss Rifle Mag">>, <<52, "Ak 4700 Mag">>,
      <<53, "Therm Pak">>, <<54, "Crysprism">>>>

\* ITEM_NAMES: code -> display name
ITEM_NAMES ==
    [code \in {ItemTable[i][1] : i \in 1..Len(ItemTable)} |->
        ItemTable[CHOOSE i \in 1..Len(ItemTable) : ItemTable[i][1] = code][2]]

VALID_ARMOR == {4, 6, 36, 37, 38, 39, 40, 41, 42, 43, 44, 45, 46, 47, 56}
VALID_WEAPONS ==
    {8, 9, 10, 11, 12, 13, 14, 15, 16, 17, 18, 19, 20, 21, 22, 23, 24, 25, 26, 27, 28, 29, 30, 31, 55}
VALID_AMMO == {48, 49, 50, 51, 52, 53, 54}
VALID_INVENTORY ==
    {0, 1, 2, 3, 5, 7, 32, 33, 34, 35, 57, 58, 59, 60, 61, 62, 63, 255}
        \cup VALID_AMMO

\* ITEM_NAMES.get(code, f"Unknown {hex(code)}")
name_or_unknown(code) ==
    IF code \in DOMAIN ITEM_NAMES THEN ITEM_NAMES[code] ELSE "Unknown " \o hex(code)

(***************************************************************************)
(* CLI: equipment display and editing (main.py).  A CLI function reads the *)
(* lines typed by the user from inputs; it returns the exception it ends   *)
(* with ("none" when it returns), EOFError when it wants a line and none   *)
(* is left, and the lines it did not read.                                 *)
(***************************************************************************)
\* display_equipment(member_num): the exception it raises.  ITEM_NAMES[code]
\* raises KeyError on a code that is no key of ITEM_NAMES.
display_equipment(data, member_num) ==
    LET equipment == data.crew[member_num].equipment
        shown == {equipment.armor, equipment.weapon}
                   \cup {equipment.onhand_weapons[i] : i \in ONHAND_SLOTS}
                   \cup {equipment.inventory[i] : i \in INVENTORY_SLOTS}
    IN IF shown \subseteq DOMAIN ITEM_NAMES THEN "none" ELSE "KeyError"

\* The mutant of get_item_code that returns the code typed without looking
\* it up in valid_items.
RECURSIVE get_item_code_unchecked(_, _)
get_item_code_unchecked(inputs, valid_items) ==
    IF Len(inputs) = 0
      THEN [exc |-> "EOFError", none |-> TRUE, val |-> 0, rest |-> inputs]
    ELSE LET value == Head(inputs)
             r == py_int(value, 16)
         IN IF Len(value) = 0
              THEN [exc |-> "none", none |-> TRUE, val |-> 0, rest |-> Tail(inputs)]
            ELSE IF r.exc # "none"
              THEN get_item_code_unchecked(Tail(inputs), valid_items)
            ELSE [exc |-> "none", none |-> FALSE, val |-> r.val, rest |-> Tail(inputs)]

\* get_item_code(prompt, valid_items): [exc, none, val, rest]; none is TRUE
\* when it returns None.
RECURSIVE get_item_code(_, _)
get_item_code(inputs, valid_items) ==
    IF Len(inputs) = 0
      THEN [exc |-> "EOFError", none |-> TRUE, val |-> 0, rest |-> inputs]
    ELSE LET value == Head(inputs)
             r == py_int(value, 16)
         IN \* Allow empty input to keep current item
            IF Len(value) = 0
              THEN [exc |-> "none", none |-> TRUE, val |-> 0, rest |-> Tail(inputs)]
            \* except ValueError: ask again
            ELSE IF r.exc # "none" THEN get_item_code(Tail(inputs), valid_items)
            ELSE IF r.val \in valid_items
              THEN IF r.val \in DOMAIN ITEM_NAMES
                     THEN [exc |-> "none", none |-> FALSE, val |-> r.val,
                           rest |-> Tail(inputs)]
                     ELSE [exc |-> "KeyError", none |-> TRUE, val |-> 0,
                           rest |-> Tail(inputs)]
            \* Invalid item code for this slot: ask again
            ELSE get_item_code(Tail(inputs), valid_items)

\* The slots edit_equipment asks for, in its order, and the set it passes
\* to get_item_code for each.
EquipmentSlots ==
    <<[cls |-> "armor", i |-> 1], [cls |-> "weapon", i |-> 1]>>
      \o [i \in ONHAND_SLOTS |-> [cls |-> "onhand", i |-> i]]
      \o [i \in INVENTORY_SLOTS |-> [cls |-> "inventory", i |-> i]]

ValidFor(cls) ==
    CASE cls = "armor" -> VALID_ARMOR
      [] cls = "weapon" -> VALID_WEAPONS
      [] cls = "onhand" -> VALID_WEAPONS \cup {EMPTY_SLOT}
      [] cls = "inventory" -> VALID_INVENTORY

SlotValue(equipment, slot) ==
    CASE slot.cls = "armor" -> equipment.armor
      [] slot.cls = "weapon" -> equipment.weapon
      [] slot.cls = "onhand" -> equipment.onhand_weapons[slot.i]
      [] slot.cls = "inventory" -> equipment.inventory[slot.i]

SetSlot(equipment, slot, code) ==
    CASE slot.cls = "armor" -> [equipment EXCEPT !.armor = code]
      [] slot.cls = "weapon" -> [equipment EXCEPT !.weapon = code]
      [] slot.cls = "onhand" -> [equipment EXCEPT !.onhand_weapons[slot.i] = code]
      [] slot.cls = "inventory" -> [equipment EXCEPT !.inventory[slot.i] = code]

\* The prompts of one pass of edit_equipment from slot k on.
RECURSIVE EditSlots(_, _, _, _)
EditSlots(equipment, made_changes, k, inputs) ==
    IF k > Len(EquipmentSlots)
      THEN [exc |-> "none", equipment |-> equipment, made_changes |-> made_changes,
            rest |-> inputs]
    ELSE LET r == get_item_code(inputs, ValidFor(EquipmentSlots[k].cls))
         IN IF r.exc # "none"
              THEN [exc |-> r.exc, equipment |-> equipment,
                    made_changes |-> made_changes, rest |-> r.rest]
            ELSE IF r.none THEN EditSlots(equipment, made_changes, k + 1, r.rest)
            ELSE EditSlots(SetSlot(equipment, EquipmentSlots[k], r.val), TRUE,
                           k + 1, r.rest)

\* The while loop of edit_equipment: [exc, data, has_changes, rest].
RECURSIVE edit_equipment_loop(_, _, _, _, _)
edit_equipment_loop(data, has_changes, made_changes, member_num, inputs) ==
    IF display_equipment(data, member_num) # "none"
      THEN [exc |-> "KeyError", data |-> data, has_changes |-> has_changes,
            rest |-> inputs]
    ELSE IF Len(inputs) = 0
      THEN [exc |-> "EOFError", data |-> data, has_changes |-> has_changes,
            rest |-> inputs]
    ELSE LET choice == upper(Head(inputs))
         IN IF choice = <<82>>            \* 'R'
              THEN [exc |-> "none", data |-> data, has_changes |-> has_changes,
                    rest |-> Tail(inputs)]
            ELSE IF choice = <<69>>       \* 'E'
              THEN LET r == EditSlots(data.crew[member_num].equipment, made_changes,
                                      1, Tail(inputs))
                       edited == [data EXCEPT !.crew[member_num].equipment =
                                                 r.equipment]
                   IN IF r.exc # "none"
                        THEN [exc |-> r.exc, data |-> edited,
                              has_changes |-> has_changes, rest |-> r.rest]
                        ELSE edit_equipment_loop(edited,
                                                 has_changes \/ r.made_changes,
                                                 r.made_changes, member_num, r.rest)
            ELSE edit_equipment_loop(data, has_changes, made_changes, member_num,
                                     Tail(inputs))

edit_equipment(data, has_changes, member_num, inputs) ==
    edit_equipment_loop(data, has_changes, FALSE, member_num, inputs)

(***************************************************************************)
(* CLI: the numeric editors (main.py).                                     *)
(***************************************************************************)
\* The prompt loop of edit_party_cash, edit_light_energy and edit_hp: asks
\* until the line is empty (keep) or a number in lo..hi.  [exc, keep, val, rest]
RECURSIVE PromptValue(_, _, _)
PromptValue(inputs, lo, hi) ==
    IF Len(inputs) = 0
      THEN [exc |-> "EOFError", keep |-> TRUE, val |-> 0, rest |-> inputs]
    ELSE LET text == Head(inputs)
             r == py_int(text, 10)
         IN \* Handle empty input (keep current value)
            IF Len(text) = 0
              THEN [exc |-> "none", keep |-> TRUE, val |-> 0, rest |-> Tail(inputs)]
            \* except ValueError
            ELSE IF r.exc # "none" THEN PromptValue(Tail(inputs), lo, hi)
            \* out of range: continue
            ELSE IF ~(lo <= r.val /\ r.val <= hi) THEN PromptValue(Tail(inputs), lo, hi)
            ELSE [exc |-> "none", keep |-> FALSE, val |-> r.val, rest |-> Tail(inputs)]

\* [exc, data, has_changes, rest]
edit_party_cash(data, has_changes, inputs) ==
    LET current_cash == data.party.cash
        r == PromptValue(inputs, 1, MAX_CASH)
    IN IF r.exc # "none" \/ r.keep \/ r.val = current_cash
         THEN [exc |-> r.exc, data |-> data, has_changes |-> has_changes, rest |-> r.rest]
         ELSE [exc |-> "none", data |-> [data EXCEPT !.party.cash = r.val],
               has_changes |-> TRUE, rest |-> r.rest]

edit_light_energy(data, has_changes, inputs) ==
    LET current_energy == data.party.light_energy
        r == PromptValue(inputs, 1, MAX_LIGHT_ENERGY)
    IN IF r.exc # "none" \/ r.keep \/ r.val = current_energy
         THEN [exc |-> r.exc, data |-> data, has_changes |-> has_changes, rest |-> r.rest]
         ELSE [exc |-> "none", data |-> [data EXCEPT !.party.light_energy = r.val],
               has_changes |-> TRUE, rest |-> r.rest]

edit_hp(data, has_changes, member_num, inputs) ==
    LET current_hp == data.crew[member_num].hp
        r == PromptValue(inputs, 1, MAX_HP)
    IN IF r.exc # "none" \/ r.keep \/ r.val = current_hp
         THEN [exc |-> r.exc, data |-> data, has_changes |-> has_changes, rest |-> r.rest]
         ELSE [exc |-> "none", data |-> [data EXCEPT !.crew[member_num].hp = r.val],
               has_changes |-> TRUE, rest |-> r.rest]

\* The for loop over the fields of one record (characteristics, abilities,
\* ship software), each with its own prompt loop: an accepted value that
\* differs from the current one is stored.  [exc, values, changed, rest]
RECURSIVE PromptFields(_, _, _, _, _, _, _)
PromptFields(values, changed, names, k, inputs, lo, hi) ==
    IF k > Len(names)
      THEN [exc |-> "none", values |-> values, changed |-> changed, rest |-> inputs]
    ELSE LET r == PromptValue(inputs, lo, hi)
         IN IF r.exc # "none"
              THEN [exc |-> r.exc, values |-> values, changed |-> changed,
                    rest |-> r.rest]
            ELSE IF r.keep \/ r.val = values[names[k]]
              THEN PromptFields(values, changed, names, k + 1, r.rest, lo, hi)
            ELSE PromptFields([values EXCEPT ![names[k]] = r.val], TRUE, names,
                              k + 1, r.rest, lo, hi)

\* made_changes reaches app_state only after the last prompt
edit_characteristics(data, has_changes, member_num, inputs) ==
    LET r == PromptFields(data.crew[member_num].characteristics, FALSE,
                          CHARACTERISTICS, 1, inputs, 0, MAX_STAT)
    IN [exc |-> r.exc,
        data |-> [data EXCEPT !.crew[member_num].characteristics = r.values],
        has_changes |-> IF r.exc = "none" THEN has_changes \/ r.changed ELSE has_changes,
        rest |-> r.rest]

edit_abilities(data, has_changes, member_num, inputs) ==
    LET r == PromptFields(data.crew[member_num].abilities, FALSE,
                          ABILITIES, 1, inputs, 0, MAX_STAT)
    IN [exc |-> r.exc,
        data |-> [data EXCEPT !.crew[member_num].abilities = r.values],
        has_changes |-> IF r.exc = "none" THEN has_changes \/ r.changed ELSE has_changes,
        rest |-> r.rest]

SHIP_SOFTWARE == <<"move", "target", "engine", "laser">>

\* app_state['has_changes'] is set at each stored value
RECURSIVE edit_ship_software(_, _, _)
edit_ship_software(data, has_changes, inputs) ==
    IF Len(inputs) = 0
      THEN [exc |-> "EOFError", data |-> data, has_changes |-> has_changes,
            rest |-> inputs]
    ELSE LET choice == upper(Head(inputs))
         IN IF choice = <<82>>            \* 'R'
              THEN [exc |-> "none", data |-> data, has_changes |-> has_changes,
                    rest |-> Tail(inputs)]
            ELSE IF choice = <<69>>       \* 'E'
              THEN LET r == PromptFields(data.ship, FALSE, SHIP_SOFTWARE, 1,
                                         Tail(inputs), 1, MAX_SHIP_SOFTWARE)
                       edited == [data EXCEPT !.ship = r.values]
                   IN IF r.exc # "none"
                        THEN [exc |-> r.exc, data |-> edited,
                              has_changes |-> has_changes \/ r.changed,
                              rest |-> r.rest]
                        ELSE edit_ship_software(edited, has_changes \/ r.changed,
                                                r.rest)
            ELSE edit_ship_software(data, has_changes, Tail(inputs))

(***************************************************************************)
(* GUI: the editors' update buttons (gui.py).  An update reads the text of *)
(* its entries or the names selected in its comboboxes; marked tells that  *)
(* it called mark_changed.                                                 *)
(***************************************************************************)
\* save_cash, save_light, save_hp: one entry, 0..max_value
GuiSaveValue(current, text, max_value) ==
    LET r == py_int(text, 10)
    IN IF r.exc # "none" THEN [val |-> current, marked |-> FALSE]
       ELSE IF 0 <= r.val /\ r.val <= max_value THEN [val |-> r.val, marked |-> TRUE]
       ELSE [val |-> current, marked |-> FALSE]

save_cash(data, text) ==
    LET r == GuiSaveValue(data.party.cash, text, MAX_CASH)
    IN [data |-> [data EXCEPT !.party.cash = r.val], marked |-> r.marked]

save_light(data, text) ==
    LET r == GuiSaveValue(data.party.light_energy, text, MAX_LIGHT_ENERGY)
    IN [data |-> [data EXCEPT !.party.light_energy = r.val], marked |-> r.marked]

save_hp(data, crew_num, text) ==
    LET r == GuiSaveValue(data.crew[crew_num].hp, text, MAX_HP)
    IN [data |-> [data EXCEPT !.crew[crew_num].hp = r.val], marked |-> r.marked]

\* The for loop of save_ship, save_chars and save_abilities over the entries:
\* the first text that is no number or is out of range ends it, the values
\* stored before it stay stored.  [values, ended, changes_made]
RECURSIVE GuiSaveFields(_, _, _, _, _, _)
GuiSaveFields(values, changes_made, names, k, texts, max_value) ==
    IF k > Len(names)
      THEN [values |-> values, ended |-> "done", changes_made |-> changes_made]
    ELSE LET r == py_int(texts[names[k]], 10)
         IN IF r.exc # "none"
              THEN [values |-> values, ended |-> "ValueError",
                    changes_made |-> changes_made]
            ELSE IF ~(0 <= r.val /\ r.val <= max_value)
              THEN [values |-> values, ended |-> "invalid",
                    changes_made |-> changes_made]
            ELSE IF values[names[k]] # r.val
              THEN GuiSaveFields([values EXCEPT ![names[k]] = r.val], TRUE, names,
                                 k + 1, texts, max_value)
            ELSE GuiSaveFields(values, changes_made, names, k + 1, texts, max_value)

\* [values, marked]: the record the button is bound to after the click
save_ship(ship, texts) ==
    LET r == GuiSaveFields(ship, FALSE, SHIP_SOFTWARE, 1, texts, MAX_SHIP_SOFTWARE)
    IN [values |-> r.values, marked |-> r.ended = "done" /\ r.changes_made]

save_chars(chars, texts) ==
    LET r == GuiSaveFields(chars, FALSE, CHARACTERISTICS, 1, texts, MAX_STAT)
    IN [values |-> r.values, marked |-> r.ended = "done" /\ r.changes_made]

save_abilities(abilities, texts) ==
    LET r == GuiSaveFields(abilities, FALSE, ABILITIES, 1, texts, MAX_STAT)
    IN [values |-> r.values, marked |-> r.ended = "done" /\ r.changes_made]

\* armor_codes, weapon_codes, inventory_codes: display name -> code of the
\* set; NoCode for a name that is no key (dict.get returns None).
NoCode == -1
CodeOfName(valid_items, name) ==
    IF \E code \in valid_items : name_or_unknown(code) = name
      THEN CHOOSE code \in valid_items : name_or_unknown(code) = name
      ELSE NoCode

\* The dictionary save_equipment looks a slot's name up in.
GuiCodesFor(cls) ==
    CASE cls = "armor" -> VALID_ARMOR
      [] cls = "weapon" -> VALID_WEAPONS
      [] cls = "onhand" -> VALID_WEAPONS
      [] cls = "inventory" -> VALID_INVENTORY

\* The names a slot's combobox can hold: the name it was set to when the
\* editor was shown, or a name of its list.
ComboNames(equipment, slot) ==
    {name_or_unknown(SlotValue(equipment, slot))}
        \cup {name_or_unknown(code) : code \in GuiCodesFor(slot.cls)}

RECURSIVE GuiSaveSlots(_, _, _, _)
GuiSaveSlots(equipment, changes_made, k, names) ==
    IF k > Len(EquipmentSlots)
      THEN [equipment |-> equipment, changes_made |-> changes_made]
    ELSE LET slot == EquipmentSlots[k]
             new_code == CodeOfName(GuiCodesFor(slot.cls), names[k])
         IN IF new_code # NoCode /\ SlotValue(equipment, slot) # new_code
              THEN GuiSaveSlots(SetSlot(equipment, slot, new_code), TRUE, k + 1, names)
              ELSE GuiSaveSlots(equipment, changes_made, k + 1, names)

\* save_equipment with names[k] the name in the combobox of EquipmentSlots[k]
save_equipment(equipment, names) ==
    LET r == GuiSaveSlots(equipment, FALSE, 1, names)
    IN [values |-> r.equipment, marked |-> r.changes_made]

(***************************************************************************)
(* The sampled files.  The observed addresses are every byte of a declared *)
(* field, the signature, and the byte before and after each of them.       *)
(***************************************************************************)
SignatureBytes ==
    SENTINEL_SIGNATURE_ADDR .. (SENTINEL_SIGNATURE_ADDR + Len(SENTINEL_SIGNATURE) - 1)

Tracked ==
    LET fields == UNION {LoadReads[i].addr .. (LoadReads[i].addr + LoadReads[i].n - 1) :
                            i \in 1..Len(LoadReads)}
    IN {x \in UNION {{a - 1, a, a + 1} : a \in fields \cup SignatureBytes} : x >= 0}

\* The bytes of crew member c's name region in a sampled file.
SampleName(variant, c) ==
    IF variant.kind = "tab" /\ variant.crew = c THEN ljust(<<66, 111, 98, 9>>, CREW_NAME_LENGTH)
    ELSE IF variant.kind = "high" /\ variant.crew = c THEN ljust(<<66, 233, 98>>, CREW_NAME_LENGTH)
    ELSE IF variant.kind = "spaces" /\ variant.crew = c THEN ljust(<<>>, CREW_NAME_LENGTH)
    ELSE IF variant.kind = "full" /\ variant.crew = c
      THEN [i \in 1..CREW_NAME_LENGTH |-> 64 + i]
    ELSE IF variant.kind = "lead" /\ variant.crew = c THEN ljust(<<32, 90, 32, 122>>, CREW_NAME_LENGTH)
    ELSE ljust(<<64 + c, 110, 110>>, CREW_NAME_LENGTH)

\* The byte at address x of a sampled file that is long enough to hold it.
SampleByte(variant, x) ==
    LET crew_addrs == get_crew_addresses
        InCrew(c) == x >= crew_addrs[c].name /\ x < crew_addrs[c].equipment.inventory_start + 8
    IN IF x \in SignatureBytes
         THEN IF variant.kind = "badsig" /\ x = SENTINEL_SIGNATURE_ADDR + 3 THEN 84
              ELSE SENTINEL_SIGNATURE[x - SENTINEL_SIGNATURE_ADDR + 1]
       ELSE IF x = PARTY_CASH_ADDR THEN IF variant.kind = "maxbytes" THEN 255 ELSE 63
       ELSE IF x = PARTY_CASH_ADDR + 1 THEN IF variant.kind = "maxbytes" THEN 255 ELSE 66
       ELSE IF x = PARTY_CASH_ADDR + 2 THEN IF variant.kind = "maxbytes" THEN 255 ELSE 15
       ELSE IF x = PARTY_LIGHT_ENERGY_ADDR THEN 100
       ELSE IF x \in {SHIP_MOVE_ADDR, SHIP_TARGET_ADDR, SHIP_ENGINE_ADDR, SHIP_LASER_ADDR}
         THEN IF variant.kind = "maxbytes" THEN 255 ELSE x - SHIP_MOVE_ADDR + 1
       ELSE IF \E c \in CREW_NUMS : InCrew(c)
         THEN LET c == CHOOSE k \in CREW_NUMS : InCrew(k)
                  a == crew_addrs[c]
              IN IF x < a.rank THEN SampleName(variant, c)[x - a.name + 1]
                 ELSE IF variant.kind = "maxbytes" /\ variant.crew = c THEN 255
                 ELSE IF x = a.rank THEN c
                 ELSE IF x = a.hp THEN 50 + c
                 ELSE IF x < a.equipment.armor THEN 10 + (x - a.hp)
                 ELSE IF variant.kind = "unkitem" /\ variant.crew = c
                         /\ x \in {a.equipment.armor, a.equipment.inventory_start + 7}
                   THEN 64
                 ELSE IF x = a.equipment.armor THEN 36
                 ELSE IF x = a.equipment.weapon THEN 8
                 ELSE IF x = a.equipment.onhand_weapons_start THEN 9
                 ELSE IF x < a.equipment.inventory_start THEN 255
                 ELSE IF x = a.equipment.inventory_start THEN 48
                 ELSE IF x = a.equipment.inventory_start + 1 THEN 0
                 ELSE 255
       ELSE 170

\* A regular file of the given size with the sampled bytes.
SampleFile(variant, size) ==
    [kind |-> "file", readable |-> TRUE, writable |-> TRUE, ioerr |-> FALSE,
     size |-> size,
     data |-> [x \in Tracked |-> IF x < size THEN SampleByte(variant, x) ELSE NoByte]]

\* A path where there is nothing.
NoFile ==
    [kind |-> "none", readable |-> FALSE, writable |-> FALSE, ioerr |-> FALSE,
     size |-> 0, data |-> [x \in Tracked |-> NoByte]]

GAMEA_FM == <<103, 97, 109, 101, 97, 46, 102, 109>>     \* gamea.fm

FULL_SIZE == 13312     \* a whole save file: past the last field, under 16KB
DirFile == [kind |-> "dir", readable |-> TRUE, writable |-> TRUE, ioerr |-> FALSE,
            size |-> 4096, data |-> [x \in Tracked |-> NoByte]]

NoPath == [dir |-> "", base |-> <<>>]       \* None, as a path

\* The values of the variables a specification does not use.
IdleAppState == [current_file |-> NoPath, has_changes |-> FALSE, file_loaded |-> FALSE]
IdleGui == [has_changes |-> FALSE, current_file |-> NoPath, alive |-> FALSE]
IdleHist ==
    [validated |-> {}, invoked |-> {}, backup_ok |-> {}, written |-> {},
     edits |-> 0, orig |-> NoFile, loaded |-> EMPTY_DICT, valid |-> FALSE]
IdleLast == [op |-> "none"]

(***************************************************************************)
(* SpecCodec: one call of a codec primitive on a small buffer, and for a   *)
(* write the read of what was written.                                     *)
(***************************************************************************)
CodecPath == [dir |-> "/tmp", base |-> <<98>>]


BufByte(pattern, x) ==
    IF pattern = "ramp" THEN 17 * (x + 1)
    ELSE IF pattern = "high" THEN 255 - x
    ELSE IF x % 3 = 0 THEN 65 + x ELSE IF x % 3 = 1 THEN 32 ELSE 9

CodecBuffer(pattern, size) ==
    [kind |-> "file", readable |-> TRUE, writable |-> TRUE, ioerr |-> FALSE,
     size |-> size,
     data |-> [x \in 0..(BufMax - 1) |-> IF x < size THEN BufByte(pattern, x) ELSE NoByte]]

\* Widths past 3 are left out: 256^4 is not a number the model checker has.
CodecWidths == {n \in 0..MaxWidth : n <= 3}
CodecValues ==
    {-1, 0, 1, 258, 999999}
        \cup {Pow(256, n) - 1 : n \in CodecWidths \ {0}}
        \cup {Pow(256, n) : n \in CodecWidths \ {0}}
CodecStrings ==
    {<<>>, <<90>>, <<90, 97>>, <<90, 32>>, <<90, 9>>, <<32, 90>>, <<233>>,
     <<90, 97, 114, 97>>}

InitCodec ==
    /\ \E pattern \in {"ramp", "high", "text"}, size \in 0..BufMax :
          disk = [p \in {CodecPath} |-> CodecBuffer(pattern, size)]
    /\ dirs = [dname \in {"/tmp"} |-> TRUE]
    /\ save_game_data = EMPTY_DICT
    /\ app_state = IdleAppState
    /\ gui = IdleGui
    /\ pc = "codec0"
    /\ last = IdleLast
    /\ hist = IdleHist

CodecWriteBytes(address, value, num_bytes) ==
    /\ pc = "codec0"
    /\ LET r == write_bytes(disk[CodecPath], address, value, num_bytes)
       IN /\ disk' = [disk EXCEPT ![CodecPath] = r.fh]
          /\ last' = [op |-> "write_bytes", address |-> address, value |-> value,
                      num_bytes |-> num_bytes, exc |-> r.exc, before |-> disk[CodecPath]]
    /\ pc' = "codec1"
    /\ UNCHANGED <<dirs, save_game_data, app_state, gui, hist>>

CodecWriteString(address, value, length) ==
    /\ pc = "codec0"
    /\ LET r == write_string(disk[CodecPath], address, value, length)
       IN /\ disk' = [disk EXCEPT ![CodecPath] = r.fh]
          /\ last' = [op |-> "write_string", address |-> address, value |-> value,
                      length |-> length, exc |-> r.exc, before |-> disk[CodecPath]]
    /\ pc' = "codec1"
    /\ UNCHANGED <<dirs, save_game_data, app_state, gui, hist>>

CodecReadBytes(address, num_bytes) ==
    /\ pc = "codec0"
    /\ LET r == read_bytes(disk[CodecPath], address, num_bytes)
       IN last' = [op |-> "read_bytes", address |-> address, num_bytes |-> num_bytes,
                   exc |-> r.exc, val |-> r.val, prev |-> last]
    /\ pc' = "codec2"
    /\ UNCHANGED <<disk, dirs, save_game_data, app_state, gui, hist>>

CodecReadString(address, length) ==
    /\ pc = "codec0"
    /\ LET r == read_string(disk[CodecPath], address, length)
       IN last' = [op |-> "read_string", address |-> address, length |-> length,
                   exc |-> r.exc, val |-> r.val, prev |-> last]
    /\ pc' = "codec2"
    /\ UNCHANGED <<disk, dirs, save_game_data, app_state, gui, hist>>

\* After a write that returned: the read at the same address and width.
CodecReadBack ==
    /\ pc = "codec1"
    /\ last.exc = "none"
    /\ IF last.op = "write_bytes"
         THEN LET r == read_bytes(disk[CodecPath], last.address, last.num_bytes)
              IN last' = [op |-> "read_bytes", address |-> last.address,
                          num_bytes |-> last.num_bytes, exc |-> r.exc, val |-> r.val,
                          prev |-> last]
         ELSE LET r == read_string(disk[CodecPath], last.address, last.length)
              IN last' = [op |-> "read_string", address |-> last.address,
                          length |-> last.length, exc |-> r.exc, val |-> r.val,
                          prev |-> last]
    /\ pc' = "codec2"
    /\ UNCHANGED <<disk, dirs, save_game_data, app_state, gui, hist>>

NextCodec ==
    \/ \E num_bytes \in CodecWidths, value \in CodecValues :
         \E address \in 0..(BufMax - num_bytes) :
            CodecWriteBytes(address, value, num_bytes)
    \/ \E length \in 0..BufMax, value \in CodecStrings :
         \E address \in 0..(BufMax - length) :
            CodecWriteString(address, value, length)
    \/ \E num_bytes \in CodecWidths, address \in 0..(BufMax - 1) :
          CodecReadBytes(address, num_bytes)
    \/ \E length \in 0..BufMax, address \in 0..(BufMax - 1) :
          CodecReadString(address, length)
    \/ CodecReadBack

SpecCodec == InitCodec /\ [][NextCodec]_vars

(***************************************************************************)
(* SpecValidate: validate_save_file on one path of a sampled file system.  *)
(***************************************************************************)
SampleBases ==
    {GAMEA_FM,                                           \* gamea.fm
     <<71, 65, 77, 69, 66, 46, 70, 77>>,                 \* GAMEB.FM
     <<115, 97, 118, 101, 103, 97, 109, 101, 46, 102, 109>>,  \* savegame.fm
     <<103, 97, 109, 101, 49, 46, 102, 109>>,            \* game1.fm
     <<103, 97, 109, 101, 97, 46, 102, 109, 10>>,        \* gamea.fm\n
     <<103, 97, 109, 101, 8490, 46, 102, 109>>,          \* game(KELVIN SIGN).fm
     <<103, 97, 109, 101, 97, 98, 46, 102, 109>>,        \* gameab.fm
     <<103, 97, 109, 101, 97, 46, 102, 109, 120>>,       \* gamea.fmx
     <<103, 97, 109, 101, 97, 46, 102, 109, 46, 98, 97, 107>>}  \* gamea.fm.bak

SampleDirs == {"", "/saves", "/ro"}
SampleDirTable ==
    [dname \in {"/saves", "/ro", "/tmp", "/home", "/home/test_data"} |-> dname # "/ro"]

ValidateFiles ==
    {NoFile, DirFile}
      \cup {[SampleFile([kind |-> sig], size) EXCEPT !.readable = r, !.ioerr = e] :
              sig \in {"clean", "badsig"}, size \in {0, 1023, 1024, 12000, 12680, 12681, FULL_SIZE, 16384, 16385},
              r \in BOOLEAN, e \in BOOLEAN}

InitValidate ==
    /\ \E dname \in SampleDirs, base \in SampleBases, f \in ValidateFiles :
          disk = [p \in {[dir |-> dname, base |-> base]} |-> f]
    /\ dirs = SampleDirTable
    /\ save_game_data = EMPTY_DICT
    /\ app_state = IdleAppState
    /\ gui = IdleGui
    /\ pc = "validate0"
    /\ last = IdleLast
    /\ hist = IdleHist

Validate(filepath) ==
    /\ pc = "validate0"
    /\ LET v == validate_save_file(disk, filepath)
       IN last' = [op |-> "validate_save_file", path |-> filepath,
                   valid |-> v[1], reason |-> v[2]]
    /\ pc' = "validate1"
    /\ UNCHANGED <<disk, dirs, save_game_data, app_state, gui, hist>>

NextValidate == \E filepath \in DOMAIN disk : Validate(filepath)

SpecValidate == InitValidate /\ [][NextValidate]_vars

(***************************************************************************)
(* SpecTable: get_crew_addresses builds the crew table from the constants  *)
(* the module imported.  sw_constants.py fixes them; the sampled sets of   *)
(* constants are the layout above with one constant moved or missing.      *)
(***************************************************************************)
\* The constants get_crew_addresses looks up for one crew member (the
\* CREW<n>_<NAME>_... names, by crew number and field).
CrewFieldNames ==
    {"name", "name_length", "rank", "hp", "armor", "weapon",
     "onhand_weapons_start", "inventory_start"}
        \cup Range(CHARACTERISTICS) \cup Range(ABILITIES)

\* globals()[f"{prefix}..."] for every field of every crew member: a name
\* that is not defined raises KeyError, and the values found are stored as
\* they are.
get_crew_addresses_from(g) ==
    IF \E crew_num \in CREW_NUMS, field \in CrewFieldNames :
          [crew |-> crew_num, field |-> field] \notin DOMAIN g
      THEN [exc |-> "KeyError", crew_addrs |-> <<>>]
      ELSE [exc |-> "none",
            crew_addrs |->
              [crew_num \in CREW_NUMS |->
                 LET const(field) == g[[crew |-> crew_num, field |-> field]]
                 IN [name |-> const("name"),
                     name_length |-> const("name_length"),
                     rank |-> const("rank"),
                     hp |-> const("hp"),
                     characteristics |->
                        [stat \in Range(CHARACTERISTICS) |-> const(stat)],
                     abilities |->
                        [ability \in Range(ABILITIES) |-> const(ability)],
                     equipment |->
                        [armor |-> const("armor"),
                         weapon |-> const("weapon"),
                         onhand_weapons_start |-> const("onhand_weapons_start"),
                         inventory_start |-> const("inventory_start")]]]]

\* The constants of the layout, and the same with the constant of one field
\* of one crew member moved by delta or (delta = 0 apart) left undefined.
SampleGlobals ==
    LET layout(crew_num, field) ==
            LET a == get_crew_addresses[crew_num]
            IN IF field \in Range(CHARACTERISTICS) THEN a.characteristics[field]
               ELSE IF field \in Range(ABILITIES) THEN a.abilities[field]
               ELSE IF field \in {"armor", "weapon", "onhand_weapons_start",
                                  "inventory_start"}
                 THEN a.equipment[field]
               ELSE a[field]
        keys == {[crew |-> crew_num, field |-> field] :
                    crew_num \in CREW_NUMS, field \in CrewFieldNames}
    IN {[k \in keys |-> IF k = moved THEN layout(k.crew, k.field) + delta
                                      ELSE layout(k.crew, k.field)] :
           moved \in keys, delta \in {-1, 0, 1}}
         \cup {[k \in keys \ {[crew |-> 3, field |-> "hp"]} |-> layout(k.crew, k.field)]}

InitTable ==
    /\ disk = [p \in {[dir |-> "/saves", base |-> GAMEA_FM]} |-> NoFile]
    /\ dirs = SampleDirTable
    /\ save_game_data = EMPTY_DICT
    /\ app_state = IdleAppState
    /\ gui = IdleGui
    /\ pc = "table0"
    /\ \E g \in SampleGlobals : last = [op |-> "none", globals |-> g]
    /\ hist = IdleHist

\* crew_addrs = get_crew_addresses()
TableBuild ==
    /\ pc = "table0"
    /\ \E r \in {get_crew_addresses_from(last.globals)} :
          last' = [op |-> "get_crew_addresses", globals |-> last.globals,
                   exc |-> r.exc, crew_addrs |-> r.crew_addrs]
    /\ pc' = "table1"
    /\ UNCHANGED <<disk, dirs, save_game_data, app_state, gui, hist>>

SpecTable == InitTable /\ [][TableBuild]_vars

(***************************************************************************)
(* SpecEdit: a sampled save file is validated and loaded, then saved as    *)
(* loaded, or saved after one edit made through a CLI or GUI editor.       *)
(***************************************************************************)
EditPath == [dir |-> "/saves", base |-> GAMEA_FM]

EditFiles ==
    {SampleFile(variant, FULL_SIZE) :
        variant \in {[kind |-> "clean", crew |-> 0], [kind |-> "tab", crew |-> 2],
                     [kind |-> "high", crew |-> 3], [kind |-> "spaces", crew |-> 1],
                     [kind |-> "full", crew |-> 4], [kind |-> "lead", crew |-> 5],
                     [kind |-> "maxbytes", crew |-> 1], [kind |-> "unkitem", crew |-> 5]}}
      \cup {[SampleFile([kind |-> "clean", crew |-> 0], FULL_SIZE) EXCEPT !.writable = FALSE]}

\* mark_changed (gui.py) on the window g
mark_changed(g) == [g EXCEPT !.has_changes = TRUE]

InitEdit ==
    /\ \E f \in EditFiles : disk = [p \in {EditPath} |-> f]
    /\ dirs = SampleDirTable
    /\ save_game_data = EMPTY_DICT
    /\ app_state = IdleAppState
    /\ gui = IdleGui
    /\ pc = "edit0"
    /\ last = IdleLast
    /\ hist = IdleHist

\* validate_save_file, then load_save_game when the file is valid
EditLoad ==
    /\ pc = "edit0"
    /\ LET v == validate_save_file(disk, EditPath)
           r == load_save_game(disk, EditPath)
       IN IF v[1] /\ r.exc = "none"
            THEN /\ save_game_data' = r.data
                 /\ hist' = [hist EXCEPT !.valid = TRUE, !.orig = disk[EditPath],
                                         !.loaded = r.data]
                 /\ pc' = "edit1"
            ELSE /\ pc' = "edit_refused"
                 /\ UNCHANGED <<save_game_data, hist>>
    /\ last' = [op |-> "load_save_game"]
    /\ UNCHANGED <<disk, dirs, app_state, gui>>

\* save_game on the loaded model (edited tells whether an editor ran)
EditSave ==
    /\ pc \in {"edit1", "edit2"}
    /\ LET r == save_game(disk, save_game_data, app_state.has_changes, EditPath)
       IN /\ disk' = r.disk
          /\ app_state' = [app_state EXCEPT !.has_changes = r.has_changes]
          /\ last' = [op |-> "save_game", ret |-> r.ret, before |-> disk[EditPath],
                      edited |-> pc = "edit2", edit |-> last]
    /\ pc' = "edit3"
    /\ UNCHANGED <<dirs, save_game_data, gui, hist>>

\* A CLI editor as it would be if it stored each accepted value in the file
\* at once.
CliEdited_write_through(to, op, member_num, inputs, r) ==
    /\ hist.edits < MaxEdits
    /\ save_game_data' = r.data
    /\ app_state' = [app_state EXCEPT !.has_changes = r.has_changes]
    /\ last' = [op |-> op, crew |-> member_num, inputs |-> inputs, exc |-> r.exc,
                rest |-> r.rest, before |-> save_game_data,
                flag |-> app_state.has_changes]
    /\ pc' = IF r.exc = "none" THEN to.ok ELSE to.exc
    /\ hist' = [hist EXCEPT !.edits = @ + 1]
    /\ disk' = save_game(disk, r.data, r.has_changes, EditPath).disk
    /\ UNCHANGED <<dirs, gui>>

\* What a CLI editor that returned r leaves behind: the menu comes back (to.ok)
\* or the exception it raised ends the run (to.exc).
CliEdited(to, op, member_num, inputs, r) ==
    /\ hist.edits < MaxEdits
    /\ save_game_data' = r.data
    /\ app_state' = [app_state EXCEPT !.has_changes = r.has_changes]
    /\ last' = [op |-> op, crew |-> member_num, inputs |-> inputs, exc |-> r.exc,
                rest |-> r.rest, before |-> save_game_data,
                flag |-> app_state.has_changes]
    /\ pc' = IF r.exc = "none" THEN to.ok ELSE to.exc
    /\ hist' = [hist EXCEPT !.edits = @ + 1]
    /\ UNCHANGED <<disk, dirs, gui>>

\* What a GUI update button that stored data and marked (or not) leaves.
GuiEdited(to, op, crew_num, texts, data, marked) ==
    /\ hist.edits < MaxEdits
    /\ save_game_data' = data
    /\ gui' = IF marked THEN mark_changed(gui) ELSE gui
    /\ app_state' = IF marked THEN [app_state EXCEPT !.has_changes = TRUE] ELSE app_state
    /\ last' = [op |-> op, crew |-> crew_num, inputs |-> texts, exc |-> "none",
                rest |-> <<>>, before |-> save_game_data,
                flag |-> app_state.has_changes]
    /\ pc' = to
    /\ hist' = [hist EXCEPT !.edits = @ + 1]
    /\ UNCHANGED <<disk, dirs>>

\* The lines typed at a number prompt: "" keeps; 0 and 655360 and 255 are
\* out of range for some editors, abc is no number.
NumberLines ==
    {<< <<>> >>,                                        \* Enter
     << <<53, 48, 48, 48, 48, 48>> >>,                  \* 500000
     << <<55>> >>,                                      \* 7
     << <<48>>, <<49, 50, 53>> >>,                      \* 0, then 125
     << <<97, 98, 99>>, <<54, 53, 53, 51, 54, 48>>, <<>> >>,  \* abc, 655360, Enter
     << <<50, 53, 53>>, <<32, 50, 53, 52, 32>> >>,      \* 255, then " 254 "
     << <<45, 49>> >>}                                  \* -1 and nothing more

NumberTexts ==
    {<<>>, <<55>>, <<48>>, <<50, 53, 53>>, <<50, 53, 52>>, <<97, 98, 99>>,
     <<54, 53, 53, 51, 54, 48>>, <<54, 53, 53, 51, 53, 57>>, <<45, 49>>}

\* The lines typed at the prompt of one slot, by class: each ends with the
\* line that ends the prompt (an accepted code, or Enter).
SlotAnswers(cls) ==
    CASE cls = "armor" ->
           {<< <<>> >>,                                      \* Enter
            << <<50, 70>> >>,                                \* 2F
            << <<48, 120, 48, 56>>, <<>> >>,                 \* 0x08 (a weapon), Enter
            << <<122, 122>>, <<102, 102>>, <<48, 120, 50, 52>> >>}  \* zz, ff, 0x24
      [] cls = "weapon" ->
           {<< <<>> >>,
            << <<49, 98>> >>,                                \* 1b
            << <<50, 52>>, <<51, 55>> >>}                    \* 24 (an armor), 37
      [] cls = "onhand" ->
           {<< <<>> >>,
            << <<70, 70>> >>,                                \* FF
            << <<51, 48>>, <<>> >>}                          \* 30 (ammunition), Enter
      [] cls = "inventory" ->
           {<< <<>> >>,
            << <<51, 54>> >>,                                \* 36
            << <<48, 57>>, <<49, 48, 48>>, <<48, 120, 102, 102>> >>}  \* 09, 100, 0xff

RECURSIVE Flatten(_)
Flatten(seqs) == IF Len(seqs) = 0 THEN <<>> ELSE Head(seqs) \o Flatten(Tail(seqs))

\* One answer per slot of EquipmentSlots: the given ones for the armor, the
\* weapon, on-hand slot i and inventory slot j, Enter for the others.
EquipAnswers(armor, weapon, i, onhand, j, inventory) ==
    [k \in 1..Len(EquipmentSlots) |->
        LET slot == EquipmentSlots[k]
        IN IF slot.cls = "armor" THEN armor
           ELSE IF slot.cls = "weapon" THEN weapon
           ELSE IF slot.cls = "onhand" /\ slot.i = i THEN onhand
           ELSE IF slot.cls = "inventory" /\ slot.i = j THEN inventory
           ELSE << <<>> >>]

\* The lines typed at the prompts of a record of n number fields, field by
\* field: those of retyped for its fields, Enter for the others.
FieldLines(n, retyped) ==
    [i \in 1..n |-> IF i \in DOMAIN retyped THEN retyped[i] ELSE << <<>> >>]

\* Field k answered with the lines typed, the fields of more with one line.
Retyped(k, typed, more) == (k :> typed) @@ [i \in DOMAIN more |-> <<more[i]>>]

\* str(n) for n >= 0: the text an entry holds when its editor is shown
RECURSIVE py_str(_)
py_str(n) == IF n < 10 THEN <<48 + n>> ELSE py_str(n \div 10) \o <<48 + (n % 10)>>

\* The texts of the entries of a record editor: the entries of retyped hold
\* its texts, the others are as shown.
EntryTexts(values, names, retyped) ==
    [name \in {names[i] : i \in 1..Len(names)} |->
        LET i == CHOOSE j \in 1..Len(names) : names[j] = name
        IN IF i \in DOMAIN retyped THEN retyped[i] ELSE py_str(values[name])]

\* The names in the comboboxes: the picked ones for the armor, the weapon,
\* on-hand slot i and inventory slot j ("" leaves the name shown), the name
\* shown for the others.
PickedNames(equipment, armor, weapon, i, onhand, j, inventory) ==
    [k \in 1..Len(EquipmentSlots) |->
        LET slot == EquipmentSlots[k]
            pick == IF slot.cls = "armor" THEN armor
                    ELSE IF slot.cls = "weapon" THEN weapon
                    ELSE IF slot.cls = "onhand" /\ slot.i = i THEN onhand
                    ELSE IF slot.cls = "inventory" /\ slot.i = j THEN inventory
                    ELSE ""
        IN IF pick = "" THEN name_or_unknown(SlotValue(equipment, slot)) ELSE pick]

\* The other fields answered in the same pass of a record editor, with the
\* text typed for each: none, 7 for the first field, 7 for the fourth.
MoreFields == {<<>>, 1 :> <<55>>, 4 :> <<55>>}

\* One choice of the menus that runs a CLI editor on the loaded model, the
\* menu being shown at pc = at: the lines typed at a number prompt are one
\* of lines, those at the prompts of the slots one of answers; where tells
\* the crew members, the fields of a record editor and the slots edited.  (For edit_equipment the lines
\* are e, the answers, r; the answers are kept slot by slot in last.inputs.)
CliEdit(at, to, where, lines, answers) ==
    \/ /\ pc = at
       /\ \E inputs \in lines :
             CliEdited(to, "edit_party_cash", 0, inputs,
                       edit_party_cash(save_game_data, app_state.has_changes, inputs))
    \/ /\ pc = at
       /\ \E inputs \in lines :
             CliEdited(to, "edit_light_energy", 0, inputs,
                       edit_light_energy(save_game_data, app_state.has_changes, inputs))
    \/ /\ pc = at
       /\ \E member_num \in where.crew, inputs \in lines :
             CliEdited(to, "edit_hp", member_num, inputs,
                       edit_hp(save_game_data, app_state.has_changes, member_num, inputs))
    \/ /\ pc = at
       /\ \E member_num \in where.crew, k \in where.characteristics, typed \in lines,
             more \in where.more :
             CliEdited(to, "edit_characteristics", member_num,
                       FieldLines(Len(CHARACTERISTICS), Retyped(k, typed, more)),
                       edit_characteristics(save_game_data, app_state.has_changes,
                                            member_num,
                                            Flatten(FieldLines(Len(CHARACTERISTICS),
                                                               Retyped(k, typed, more)))))
    \/ /\ pc = at
       /\ \E member_num \in where.crew, k \in where.abilities, typed \in lines,
             more \in where.more :
             CliEdited(to, "edit_abilities", member_num,
                       FieldLines(Len(ABILITIES), Retyped(k, typed, more)),
                       edit_abilities(save_game_data, app_state.has_changes, member_num,
                                      Flatten(FieldLines(Len(ABILITIES),
                                                         Retyped(k, typed, more)))))
    \/ /\ pc = at
       /\ \E k \in where.ship, typed \in lines, more \in where.more :
             CliEdited(to, "edit_ship_software", 0,
                       FieldLines(Len(SHIP_SOFTWARE), Retyped(k, typed, more)),
                       edit_ship_software(save_game_data, app_state.has_changes,
                                          << <<69>> >>
                                              \o Flatten(FieldLines(Len(SHIP_SOFTWARE),
                                                                     Retyped(k, typed, more)))
                                              \o << <<82>> >>))
    \/ /\ pc = at
       /\ \E member_num \in where.crew, armor \in answers.armor,
             weapon \in answers.weapon, ij \in where.slots,
             onhand \in answers.onhand, inventory \in answers.inventory :
             CliEdited(to, "edit_equipment", member_num,
                       EquipAnswers(armor, weapon, ij[1], onhand, ij[2], inventory),
                       edit_equipment(save_game_data, app_state.has_changes, member_num,
                                      << <<101>> >>
                                          \o Flatten(EquipAnswers(armor, weapon, ij[1],
                                                                  onhand, ij[2], inventory))
                                          \o << <<114>> >>))

\* One update button of the GUI pressed with the model loaded at pc = at:
\* the entry (or one entry of a record editor) holds one of texts, the
\* comboboxes of the slots hold one of picks ("" leaves the name shown);
\* where tells the crew members, the entries and the slots edited.
GuiEdit(at, to, where, texts, picks) ==
    \/ /\ pc = at
       /\ \E text \in texts :
             GuiEdited(to, "save_cash", 0, text, save_cash(save_game_data, text).data,
                       save_cash(save_game_data, text).marked)
    \/ /\ pc = at
       /\ \E text \in texts :
             GuiEdited(to, "save_light", 0, text, save_light(save_game_data, text).data,
                       save_light(save_game_data, text).marked)
    \/ /\ pc = at
       /\ \E crew_num \in where.crew, text \in texts :
             GuiEdited(to, "save_hp", crew_num, text,
                       save_hp(save_game_data, crew_num, text).data,
                       save_hp(save_game_data, crew_num, text).marked)
    \/ /\ pc = at
       /\ \E k \in where.ship, text \in texts, more \in where.more :
             LET entries == EntryTexts(save_game_data.ship, SHIP_SOFTWARE,
                                       (k :> text) @@ more)
                 r == save_ship(save_game_data.ship, entries)
             IN GuiEdited(to, "save_ship", 0, entries,
                          [save_game_data EXCEPT !.ship = r.values], r.marked)
    \/ /\ pc = at
       /\ \E crew_num \in where.crew, k \in where.characteristics, text \in texts,
             more \in where.more :
             LET chars == save_game_data.crew[crew_num].characteristics
                 entries == EntryTexts(chars, CHARACTERISTICS, (k :> text) @@ more)
                 r == save_chars(chars, entries)
             IN GuiEdited(to, "save_chars", crew_num, entries,
                          [save_game_data EXCEPT !.crew[crew_num].characteristics = r.values],
                          r.marked)
    \/ /\ pc = at
       /\ \E crew_num \in where.crew, k \in where.abilities, text \in texts,
             more \in where.more :
             LET abilities == save_game_data.crew[crew_num].abilities
                 entries == EntryTexts(abilities, ABILITIES, (k :> text) @@ more)
                 r == save_abilities(abilities, entries)
             IN GuiEdited(to, "save_abilities", crew_num, entries,
                          [save_game_data EXCEPT !.crew[crew_num].abilities = r.values],
                          r.marked)
    \/ /\ pc = at
       /\ \E crew_num \in where.crew, ij \in where.slots, armor \in picks.armor,
             weapon \in picks.weapon, onhand \in picks.onhand,
             inventory \in picks.inventory :
             LET equipment == save_game_data.crew[crew_num].equipment
                 names == PickedNames(equipment, armor, weapon, ij[1], onhand, ij[2],
                                      inventory)
                 r == save_equipment(equipment, names)
             IN /\ \A k \in 1..Len(EquipmentSlots) :
                      names[k] \in ComboNames(equipment, EquipmentSlots[k])
                /\ GuiEdited(to, "save_equipment", crew_num, names,
                             [save_game_data EXCEPT !.crew[crew_num].equipment = r.values],
                             r.marked)

NextEdit ==
    \/ EditLoad
    \/ EditSave
    \/ CliEdit("edit1", [ok |-> "edit2", exc |-> "edit2"],
               [crew |-> {1, 5}, ship |-> {1, 4}, characteristics |-> {1, 5},
                abilities |-> {1, 12}, slots |-> {<<1, 8>>, <<3, 1>>},
                more |-> MoreFields],
               NumberLines,
               [cls \in {"armor", "weapon", "onhand", "inventory"} |-> SlotAnswers(cls)])
    \/ GuiEdit("edit1", "edit2",
               [crew |-> {1, 5}, ship |-> {1, 4}, characteristics |-> {1, 5},
                abilities |-> {1, 12}, slots |-> {<<1, 8>>, <<3, 1>>},
                more |-> MoreFields],
               NumberTexts,
               [armor |-> {"", "Special"}, weapon |-> {"", "Neutron Gun"},
                onhand |-> {"", "Dagger"},
                inventory |-> {"", "Crysprism", "Empty Slot"}])

SpecEdit == InitEdit /\ [][NextEdit]_vars

(***************************************************************************)
(* Spec: one run of the CLI (main) or of the GUI (SentinelWorldsEditor) on *)
(* a sampled file system: a file is chosen, validated, backed up and       *)
(* loaded, then edited and saved through the menus or the window.          *)
(***************************************************************************)
DEFAULT_SAVE_PATH == "test_data"

\* os.path.abspath of a typed path, the working directory being /home
abspath(p) ==
    [p EXCEPT !.dir = IF @ = "" THEN "/home"
                      ELSE IF @ = "test_data" THEN "/home/test_data"
                      ELSE @]

\* The files of the session: gamea.fm whole, gameb.fm cut inside the ship
\* section (past the signature), a second gamea.fm in the default directory,
\* a whole file under a name that is no save name, a whole file in a
\* directory that is not writable, nothing at /home/gamea.fm, and for each
\* path its .bak, of which only that of /saves/gamea.fm may exist (bak).
SessionDisk(bak) ==
    LET whole == SampleFile([kind |-> "clean", crew |-> 0], FULL_SIZE)
        files == {<<EditPath, whole>>,
                  <<[dir |-> "/saves", base |-> <<103, 97, 109, 101, 98, 46, 102, 109>>],
                    SampleFile([kind |-> "clean", crew |-> 0], SHIP_ENGINE_ADDR)>>,
                  <<[dir |-> "/home/test_data", base |-> GAMEA_FM],
                    SampleFile([kind |-> "spaces", crew |-> 1], FULL_SIZE)>>,
                  <<[dir |-> "/saves", base |-> <<103, 97, 109, 101, 49, 46, 102, 109>>],
                    whole>>,
                  <<[dir |-> "/ro", base |-> GAMEA_FM], whole>>,
                  <<[dir |-> "/home", base |-> GAMEA_FM], NoFile>>}
        paths == {x[1] : x \in files}
    IN [p \in paths \cup {BakPath(q) : q \in paths} |->
          IF p \in paths THEN (CHOOSE x \in files : x[1] = p)[2]
          ELSE IF p = BakPath(EditPath) THEN bak
          ELSE NoFile]

InitSession ==
    /\ \E bak \in {NoFile, SampleFile([kind |-> "tab", crew |-> 2], FULL_SIZE)},
          writable \in BOOLEAN :
          /\ writable \/ bak = NoFile
          /\ disk = [SessionDisk(bak) EXCEPT ![EditPath].writable = writable]
    /\ dirs = SampleDirTable
    /\ save_game_data = EMPTY_DICT
    /\ app_state = IdleAppState
    /\ gui = IdleGui
    /\ pc = "start"
    /\ last = IdleLast
    /\ hist = IdleHist

\* get_save_file_path(cmdline_path) with the lines typed at the prompt (an
\* empty line is NoPath): [ret, exit].  ret is NoPath for None; exit is "1"
\* for sys.exit(1), "EOFError" when input() finds no line.
RECURSIVE get_save_file_path(_, _, _)
get_save_file_path(d, cmdline_path, inputs) ==
    IF cmdline_path # NoPath
      THEN IF validate_save_file(d, abspath(cmdline_path))[1]
             THEN [ret |-> abspath(cmdline_path), exit |-> "none"]
             ELSE [ret |-> NoPath, exit |-> "1"]
    ELSE IF Len(inputs) = 0 THEN [ret |-> NoPath, exit |-> "EOFError"]
    ELSE IF Head(inputs) = NoPath THEN [ret |-> NoPath, exit |-> "none"]
    ELSE LET filepath == abspath(IF Head(inputs).dir = ""
                                   THEN [Head(inputs) EXCEPT !.dir = DEFAULT_SAVE_PATH]
                                   ELSE Head(inputs))
         IN IF validate_save_file(d, filepath)[1]
              THEN [ret |-> filepath, exit |-> "none"]
              ELSE get_save_file_path(d, NoPath, Tail(inputs))

\* main() up to the menu loop, with the command-line path, the lines typed
\* at the path prompt and the outcome of the copy of create_backup:
\* [disk, app, data, exit] and, for the claims, the paths validated as
\* valid, the calls made, what create_backup returned, the state at the
\* call of load_save_game and what that call raised and returned.
main(d, app, cmdline_path, inputs, outcome) ==
    LET loaded(filename, b, r) ==
            [disk |-> b.disk,
             app |-> IF r.exc = "none"
                       THEN [app EXCEPT !.current_file = filename, !.file_loaded = TRUE]
                       ELSE [app EXCEPT !.current_file = filename],
             data |-> r.data,
             exit |-> IF r.exc = "none" THEN "none" ELSE "1",
             path |-> filename, validated |-> {filename},
             calls |-> {<<"create_backup", filename>>, <<"load_save_game", filename>>},
             backup |-> b.ret, at_load |-> [app EXCEPT !.current_file = filename],
             load_exc |-> r.exc, returned |-> r.data]
        backed(filename, b) == loaded(filename, b, load_save_game(b.disk, filename))
        chosen(g) ==
            IF g.ret = NoPath
              THEN [disk |-> d, app |-> app, data |-> EMPTY_DICT,
                    exit |-> IF g.exit = "none" THEN "0" ELSE g.exit,
                    path |-> NoPath, validated |-> {}, calls |-> {}, backup |-> FALSE,
                    at_load |-> app, load_exc |-> "none", returned |-> EMPTY_DICT]
              ELSE backed(g.ret, create_backup(d, g.ret, outcome))
    IN chosen(get_save_file_path(d, cmdline_path, inputs))

\* The mutant of open_file that goes on after a failed validation.
open_file_unvalidated(d, g, app, data, filename, outcome) ==
    LET loaded(v, b, r) ==
            [disk |-> b.disk,
             gui |-> IF r.exc = "none"
                       THEN [g EXCEPT !.current_file = filename, !.has_changes = FALSE]
                       ELSE g,
             app |-> IF r.exc = "none"
                       THEN [app EXCEPT !.current_file = filename, !.file_loaded = TRUE]
                       ELSE app,
             data |-> IF r.exc = "none" THEN r.data ELSE data,
             valid |-> v, validated |-> IF v THEN {filename} ELSE {},
             calls |-> {<<"create_backup", filename>>, <<"load_save_game", filename>>},
             backup |-> b.ret, load_exc |-> r.exc, returned |-> r.data]
        backed(v, b) == loaded(v, b, load_save_game(b.disk, filename))
    IN IF filename = NoPath
         THEN [disk |-> d, gui |-> g, app |-> app, data |-> data, valid |-> FALSE,
               validated |-> {}, calls |-> {}, backup |-> FALSE,
               load_exc |-> "none", returned |-> EMPTY_DICT]
         ELSE backed(validate_save_file(d, filename)[1],
                     create_backup(d, filename, outcome))

\* The mutant of open_file that loads without the call of create_backup.
open_file_no_backup(d, g, app, data, filename, outcome) ==
    LET loaded(b, r) ==
            [disk |-> b.disk,
             gui |-> IF r.exc = "none"
                       THEN [g EXCEPT !.current_file = filename, !.has_changes = FALSE]
                       ELSE g,
             app |-> IF r.exc = "none"
                       THEN [app EXCEPT !.current_file = filename, !.file_loaded = TRUE]
                       ELSE app,
             data |-> IF r.exc = "none" THEN r.data ELSE data,
             valid |-> TRUE, validated |-> {filename},
             calls |-> {<<"load_save_game", filename>>},
             backup |-> b.ret, load_exc |-> r.exc, returned |-> r.data]
    IN IF filename = NoPath \/ ~validate_save_file(d, filename)[1]
         THEN [disk |-> d, gui |-> g, app |-> app, data |-> data, valid |-> FALSE,
               validated |-> {}, calls |-> {}, backup |-> FALSE,
               load_exc |-> "none", returned |-> EMPTY_DICT]
         ELSE loaded([ret |-> FALSE, disk |-> d], load_save_game(d, filename))

\* SentinelWorldsEditor.open_file with the file name the dialog returned
\* (NoPath when it was cancelled) and the outcome of the copy of
\* create_backup: [disk, gui, app, data] and, for the claims, whether the
\* validation passed, the paths validated as valid, the calls made, what
\* create_backup returned, what load_save_game raised and returned.
open_file(d, g, app, data, filename, outcome) ==
    LET loaded(b, r) ==
            [disk |-> b.disk,
             gui |-> IF r.exc = "none"
                       THEN [g EXCEPT !.current_file = filename, !.has_changes = FALSE]
                       ELSE g,
             app |-> IF r.exc = "none"
                       THEN [app EXCEPT !.current_file = filename, !.file_loaded = TRUE]
                       ELSE app,
             data |-> IF r.exc = "none" THEN r.data ELSE data,
             valid |-> TRUE, validated |-> {filename},
             calls |-> {<<"create_backup", filename>>, <<"load_save_game", filename>>},
             backup |-> b.ret, load_exc |-> r.exc, returned |-> r.data]
        backed(b) == loaded(b, load_save_game(b.disk, filename))
    IN IF filename = NoPath \/ ~validate_save_file(d, filename)[1]
         THEN [disk |-> d, gui |-> g, app |-> app, data |-> data, valid |-> FALSE,
               validated |-> {}, calls |-> {}, backup |-> FALSE,
               load_exc |-> "none", returned |-> EMPTY_DICT]
         ELSE backed(create_backup(d, filename, outcome))

\* SentinelWorldsEditor.save_file: [disk, gui, app, calls, ret]; an
\* exception of save_game is shown and the window stays as it was.
save_file(d, g, app, data) ==
    IF g.current_file = NoPath \/ ~g.has_changes
      THEN [disk |-> d, gui |-> g, app |-> app, calls |-> {}, ret |-> "none"]
      ELSE LET r == save_game(d, data, app.has_changes, g.current_file)
           IN [disk |-> r.disk,
               gui |-> IF r.ret = "True" THEN [g EXCEPT !.has_changes = FALSE] ELSE g,
               app |-> [app EXCEPT !.has_changes = r.has_changes],
               calls |-> {<<"save_game", g.current_file>>}, ret |-> r.ret]

\* What the calls made in one step add to the history: the paths validated
\* as valid, the calls, the paths whose latest create_backup returned True,
\* the paths save_game was called on since their latest create_backup.
Traced(validated, calls, backup) ==
    [hist EXCEPT
       !.validated = @ \cup validated,
       !.invoked = @ \cup calls,
       !.backup_ok = (@ \ {c[2] : c \in {x \in calls : x[1] = "create_backup"}})
                       \cup {c[2] : c \in {x \in calls : x[1] = "create_backup" /\ backup}},
       !.written = (@ \ {c[2] : c \in {x \in calls : x[1] = "create_backup"}})
                     \cup {c[2] : c \in {x \in calls : x[1] = "save_game"}}]

\* The paths typed or picked in a session.
SessionInputs ==
    {EditPath, [dir |-> "", base |-> GAMEA_FM],
     [dir |-> "/saves", base |-> <<103, 97, 109, 101, 98, 46, 102, 109>>],
     [dir |-> "/saves", base |-> <<103, 97, 109, 101, 49, 46, 102, 109>>],
     [dir |-> "/ro", base |-> GAMEA_FM]}

\* python -m src.main [filepath]: main() until the menu is shown or the
\* program has exited.
CliMain(cmdline_path, inputs, outcome) ==
    /\ pc = "start"
    /\ \E r \in {main(disk, app_state, cmdline_path, inputs, outcome)} :
          /\ disk' = r.disk
          /\ app_state' = r.app
          /\ save_game_data' = r.data
          /\ pc' = IF r.exit = "none" THEN "cli_menu" ELSE "exited"
          /\ last' = [op |-> "main", path |-> r.path, valid |-> r.path # NoPath,
                      calls |-> r.calls, exit |-> r.exit, load_exc |-> r.load_exc,
                      returned |-> r.returned,
                      at_load |-> [data |-> save_game_data, app |-> r.at_load,
                                   gui |-> gui]]
          /\ hist' = Traced(r.validated, r.calls, r.backup)
    /\ UNCHANGED <<dirs, gui>>

\* handle_main_menu with the choice Q (and the answer to "Really quit?"), W
\* or a line that is no choice.
CliMenu(choice, confirm) ==
    /\ pc = "cli_menu"
    /\ IF choice = "W" /\ app_state.has_changes
         THEN LET r == save_game(disk, save_game_data, app_state.has_changes,
                                 app_state.current_file)
              IN /\ disk' = r.disk
                 /\ app_state' = [app_state EXCEPT !.has_changes = r.has_changes]
                 /\ pc' = IF r.ret = "KeyError" THEN "exited" ELSE "cli_menu"
                 /\ last' = [op |-> "handle_main_menu", path |-> app_state.current_file,
                             calls |-> {<<"save_game", app_state.current_file>>},
                             ret |-> r.ret]
                 /\ hist' = Traced({}, {<<"save_game", app_state.current_file>>}, FALSE)
         ELSE /\ pc' = IF choice = "Q" /\ (app_state.has_changes => confirm = "Y")
                         THEN "exited"
                         ELSE "cli_menu"
              /\ last' = [op |-> "handle_main_menu", path |-> app_state.current_file,
                          calls |-> {}, ret |-> "none"]
              /\ UNCHANGED <<disk, app_state, hist>>
    /\ UNCHANGED <<dirs, save_game_data, gui>>

\* python -m src.gui: the window is built, no file is open.
GuiStart ==
    /\ pc = "start"
    /\ gui' = [gui EXCEPT !.alive = TRUE]
    /\ pc' = "gui_idle"
    /\ last' = [op |-> "__init__", calls |-> {}]
    /\ UNCHANGED <<disk, dirs, save_game_data, app_state, hist>>

\* File > Open
GuiOpenFile(filename, outcome) ==
    /\ pc \in {"gui_idle", "gui_loaded"}
    /\ \E r \in {open_file(disk, gui, app_state, save_game_data, filename, outcome)} :
          /\ disk' = r.disk
          /\ gui' = r.gui
          /\ app_state' = r.app
          /\ save_game_data' = r.data
          /\ pc' = IF r.data = EMPTY_DICT THEN "gui_idle" ELSE "gui_loaded"
          /\ last' = [op |-> "open_file", path |-> filename, valid |-> r.valid,
                      calls |-> r.calls, exit |-> "none", load_exc |-> r.load_exc,
                      returned |-> r.returned,
                      at_load |-> [data |-> save_game_data, app |-> app_state,
                                   gui |-> gui]]
          /\ hist' = Traced(r.validated, r.calls, r.backup)
    /\ UNCHANGED dirs

\* File > Save
GuiSaveFile ==
    /\ pc = "gui_loaded"
    /\ \E r \in {save_file(disk, gui, app_state, save_game_data)} :
          /\ disk' = r.disk
          /\ gui' = r.gui
          /\ app_state' = r.app
          /\ last' = [op |-> "save_file", path |-> gui.current_file, calls |-> r.calls,
                      ret |-> r.ret]
          /\ hist' = Traced({}, r.calls, FALSE)
    /\ UNCHANGED <<dirs, save_game_data, pc>>

\* The window is closed: with unsaved changes the answer to "Save before
\* exiting?" is cancel (the window stays), yes (save_file) or no.
on_closing(response) ==
    /\ pc \in {"gui_idle", "gui_loaded"}
    /\ \E r \in {IF gui.has_changes /\ response = "yes"
                     THEN save_file(disk, gui, app_state, save_game_data)
                     ELSE [disk |-> disk, gui |-> gui, app |-> app_state, calls |-> {},
                           ret |-> "none"]} :
          /\ disk' = r.disk
          /\ gui' = IF gui.has_changes /\ response = "cancel"
                      THEN r.gui
                      ELSE [r.gui EXCEPT !.alive = FALSE]
          /\ app_state' = r.app
          /\ pc' = IF gui.has_changes /\ response = "cancel" THEN pc ELSE "exited"
          /\ last' = [op |-> "on_closing", path |-> gui.current_file, calls |-> r.calls,
                      ret |-> r.ret]
          /\ hist' = Traced({}, r.calls, FALSE)
    /\ UNCHANGED <<dirs, save_game_data>>

Next ==
    \/ \E cmdline_path \in SessionInputs \cup {NoPath},
          inputs \in {<<>>, <<NoPath>>} \cup {<<p>> : p \in SessionInputs}
                       \cup {<<p, EditPath>> : p \in SessionInputs},
          outcome \in {"ok", "open_fails", "write_fails"} :
          CliMain(cmdline_path, inputs, outcome)
    \/ \E choice \in {"Q", "W", "X"}, confirm \in {"Y", "N"} : CliMenu(choice, confirm)
    \/ CliEdit("cli_menu", [ok |-> "cli_menu", exc |-> "exited"],
               [crew |-> {1}, ship |-> {1}, characteristics |-> {1}, abilities |-> {1},
                slots |-> {<<1, 8>>}, more |-> {<<>>, 4 :> <<55>>}],
               {<< <<55>> >>, << <<45, 49>> >>},         \* 7; -1 and nothing more
               [armor |-> {<< <<>> >>}, weapon |-> {<< <<49, 98>> >>},
                onhand |-> {<< <<>> >>}, inventory |-> {<< <<>> >>}])
    \/ GuiStart
    \/ \E filename \in {p \in SessionInputs : p.dir = "/saves"} \cup {NoPath} :
          \E outcome \in IF filename # NoPath /\ validate_save_file(disk, filename)[1]
                            THEN {"ok", "open_fails"}
                            ELSE {"ok"} :
             GuiOpenFile(filename, outcome)
    \/ GuiSaveFile
    \/ \E response \in {"cancel", "yes", "no"} : on_closing(response)
    \/ GuiEdit("gui_loaded", "gui_loaded",
               [crew |-> {1}, ship |-> {1}, characteristics |-> {1}, abilities |-> {1},
                slots |-> {<<1, 8>>}, more |-> {<<>>}],
               {<<55>>},
               [armor |-> {""}, weapon |-> {"Neutron Gun"}, onhand |-> {""},
                inventory |-> {""}])

Spec == InitSession /\ [][Next]_vars

(***************************************************************************)
(* Claims about the codec primitives (SpecCodec).                          *)
(***************************************************************************)
WroteBytes == pc = "codec1" /\ last.op = "write_bytes"

\* C3: write_bytes with 0 <= value <= 256^num_bytes - 1 sets the num_bytes
\* bytes at address to the little-endian encoding of value (their weighted
\* sum is value) and leaves every other byte the buffer had as it was.
C3_WriteBytesExactRange ==
    (WroteBytes /\ 0 <= last.value /\ last.value <= Pow(256, last.num_bytes) - 1)
    => LET f == disk[CodecPath]
           b == last.before
           n == last.num_bytes
           a == last.address
       IN /\ n >= 1 => last.exc = "none"
          /\ n >= 1 =>
               /\ \A i \in 0..(n - 1) : f.data[a + i] \in 0..255
               /\ from_bytes([i \in 1..n |-> f.data[a + i - 1]]) = last.value
          /\ \A x \in DOMAIN b.data :
               (x < b.size /\ (x < a \/ x >= a + n)) => f.data[x] = b.data[x]

C3_Witness ==
    /\ WroteBytes /\ last.num_bytes = 3 /\ last.value = 999999 /\ last.address = 1
    /\ last.exc = "none" /\ last.before.size = BufMax
    /\ disk[CodecPath].data[1] = 63 /\ disk[CodecPath].data[0] = last.before.data[0]

\* C4: for every width n >= 1, write_bytes of 256^n - 1 succeeds; write_bytes
\* of 256^n or of a negative value raises ValueError and the buffer is what
\* it was before the call.
C4_WidthBoundary ==
    (WroteBytes /\ last.num_bytes >= 1)
    => /\ last.value = Pow(256, last.num_bytes) - 1 =>
            /\ last.exc = "none"
            /\ \A i \in 0..(last.num_bytes - 1) :
                  disk[CodecPath].data[last.address + i] = 255
       /\ (last.value >= Pow(256, last.num_bytes) \/ last.value < 0) =>
            /\ last.exc = "ValueError"
            /\ disk[CodecPath] = last.before

C4_Witness ==
    /\ WroteBytes /\ last.num_bytes = 3 /\ last.value = 16777216
    /\ last.exc = "ValueError" /\ last.before.size > 0
    /\ disk[CodecPath] = last.before

\* The bytes of the buffer f at address .. address + length - 1.
Region(f, address, length) == [i \in 1..length |-> f.data[address + i - 1]]

\* read_string has read back what write_string wrote, the value being
\* shorter than the field.
ReadBackShorter ==
    /\ pc = "codec2"
    /\ last.op = "read_string"
    /\ last.prev.op = "write_string"
    /\ Len(last.prev.value) < last.length

WroteString == pc = "codec1" /\ last.op = "write_string"

\* Every byte the buffer had outside address .. address + length - 1 is as
\* it was before the write.
SameOutsideRegion ==
    \A x \in DOMAIN last.before.data :
        (x < last.before.size /\ (x < last.address \/ x >= last.address + last.length))
            => disk[CodecPath].data[x] = last.before.data[x]

\* C12 as stated: a value longer than length raises ValueError and no byte
\* is written; every other value is written as length bytes, the value
\* followed by 0x20 bytes, with no byte outside the region changed.
C12_WriteStringContract ==
    WroteString =>
        IF Len(last.value) > last.length
          THEN last.exc = "ValueError" /\ disk[CodecPath] = last.before
          ELSE /\ last.exc = "none"
               /\ Region(disk[CodecPath], last.address, last.length)
                     = last.value \o [i \in 1..(last.length - Len(last.value)) |-> 32]
               /\ SameOutsideRegion

\* C12, amended: as stated for the values made of ASCII characters; a value
\* that fits but holds a character past 127 raises (UnicodeEncodeError, a
\* ValueError) and no byte is written.
C12_WriteStringAsciiContract ==
    WroteString =>
        IF Len(last.value) > last.length \/ \E i \in 1..Len(last.value) : last.value[i] > 127
          THEN last.exc = "ValueError" /\ disk[CodecPath] = last.before
          ELSE /\ last.exc = "none"
               /\ Region(disk[CodecPath], last.address, last.length)
                     = last.value \o [i \in 1..(last.length - Len(last.value)) |-> 32]
               /\ SameOutsideRegion

\* "Za" written to a field of four bytes inside a full buffer: two bytes
\* of padding, the byte before the field kept.
C12_Witness ==
    /\ WroteString
    /\ last.value = <<90, 97>>
    /\ last.length = 4
    /\ last.address = 1
    /\ last.before.size = BufMax
    /\ last.exc = "none"
    /\ disk[CodecPath].data[4] = 32
    /\ disk[CodecPath].data[0] = last.before.data[0]

\* read_string has read a region that lies inside the buffer.
ReadString == pc = "codec2" /\ last.op = "read_string" /\ last.prev.op = "none"

\* C13 as stated: read_string returns the bytes of the region decoded (a
\* byte past 127 as U+FFFD) with trailing 0x20 characters removed and
\* nothing else: the result ends in no space, and what was removed is
\* spaces only.
C13_TrimsSpacesOnly ==
    (ReadString /\ last.address + last.length <= disk[CodecPath].size) =>
        /\ last.exc = "none"
        /\ \E n \in 0..last.length :
              /\ last.val = decode_ascii_replace(
                                Region(disk[CodecPath], last.address, n))
              /\ \A i \in (n + 1)..last.length :
                    disk[CodecPath].data[last.address + i - 1] = 32
              /\ n > 0 => disk[CodecPath].data[last.address + n - 1] # 32

ReadBackBytes ==
    /\ pc = "codec2"
    /\ last.op = "read_bytes"
    /\ last.prev.op = "write_bytes"

\* C14: write_bytes(address, v, n) with 0 <= v <= 256^n - 1 followed by
\* read_bytes(address, n) returns v, byte i of the region being
\* (v div 256^i) mod 256; 256^n is rejected by write_bytes.
C14_UnsignedRoundTrip ==
    /\ ReadBackBytes =>
          /\ 0 <= last.prev.value /\ last.prev.value <= Pow(256, last.num_bytes) - 1
          /\ last.exc = "none"
          /\ last.val = last.prev.value
          /\ \A i \in 0..(last.num_bytes - 1) :
                disk[CodecPath].data[last.address + i]
                   = (last.prev.value \div Pow(256, i)) % 256
    /\ (WroteBytes /\ last.num_bytes >= 1) =>
          (last.exc = "none" <=>
              (0 <= last.value /\ last.value <= Pow(256, last.num_bytes) - 1))

\* 999999 written in three bytes (3F 42 0F) and read back.
C14_Witness ==
    /\ ReadBackBytes
    /\ last.num_bytes = 3
    /\ last.prev.value = 999999
    /\ last.val = 999999
    /\ disk[CodecPath].data[last.address] = 63
    /\ disk[CodecPath].data[last.address + 1] = 66
    /\ disk[CodecPath].data[last.address + 2] = 15

(***************************************************************************)
(* Claims about validate_save_file (SpecValidate).                         *)
(***************************************************************************)
Validated == pc = "validate1" /\ last.op = "validate_save_file"

\* The six checks of the claim, each stated on the file system alone.
CheckPasses(k, d, p) ==
    LET f == d[p]
    IN CASE k = 1 -> f.kind = "file"
         [] k = 2 -> f.readable
         [] k = 3 -> f.size >= 1024 /\ f.size <= 16384
         [] k = 4 -> match_game_fm(lower(p.base))
         [] k = 5 -> /\ ~f.ioerr
                     /\ FileRead(f, SENTINEL_SIGNATURE_ADDR, 8) = SENTINEL_SIGNATURE
         [] k = 6 -> p.dir # "" /\ dirs[p.dir]

\* The first check of 1..6 that fails, 0 when none does.
FirstFailing(d, p) ==
    IF \A k \in 1..6 : CheckPasses(k, d, p) THEN 0
    ELSE CHOOSE k \in 1..6 :
            /\ ~CheckPasses(k, d, p)
            /\ \A j \in 1..(k - 1) : CheckPasses(j, d, p)

\* The messages check k gives for path p and file f.
ReasonsOf(k, p, f) ==
    CASE k = 1 -> {"File not found: " \o PathStr(p), "Path is not a file: " \o PathStr(p)}
      [] k = 2 -> {"File is not readable: " \o PathStr(p)}
      [] k = 3 -> {"File is too large (" \o ToString(f.size)
                      \o " bytes). Expected ~12KB, max 16KB.",
                   "File is too small (" \o ToString(f.size)
                      \o " bytes). Likely not a valid save file."}
      [] k = 4 -> {"Filename must match pattern 'gameX.fm' where X is A-Z (found: "
                      \o StrOf(p.base) \o ")"}
      [] k = 5 -> {"File does not appear to be a valid Sentinel Worlds save file (signature mismatch)",
                   "Error reading file: [Errno 5] Input/output error"}
      [] k = 6 -> {"Directory is not writable: " \o p.dir
                      \o "\nCannot save changes or create backup files."}

\* One file failing each check first, to compare reasons across checks.
FailingFiles ==
    {NoFile, DirFile,
     [SampleFile([kind |-> "clean"], FULL_SIZE) EXCEPT !.readable = FALSE],
     SampleFile([kind |-> "clean"], 1023),
     SampleFile([kind |-> "clean"], 16385),
     SampleFile([kind |-> "clean"], FULL_SIZE),
     SampleFile([kind |-> "badsig"], FULL_SIZE),
     [SampleFile([kind |-> "clean"], FULL_SIZE) EXCEPT !.ioerr = TRUE]}

C10_ReasonEmptyIffValid == Validated => ((last.reason = "") <=> last.valid)

C10_Witness == Validated /\ last.valid /\ last.reason = ""

\* "game", one letter A-Z and ".fm", in either case
GameLetterFm(base) ==
    LET fold(c) == IF c >= 65 /\ c <= 90 THEN c + 32 ELSE c
    IN /\ Len(base) = 8
       /\ [i \in 1..4 |-> fold(base[i])] = <<103, 97, 109, 101>>
       /\ fold(base[5]) >= 97 /\ fold(base[5]) <= 122
       /\ [i \in 1..3 |-> fold(base[5 + i])] = <<46, 102, 109>>

FilenameReason(p) ==
    "Filename must match pattern 'gameX.fm' where X is A-Z (found: " \o StrOf(p.base) \o ")"

GameaInWritableDir ==
    /\ Validated
    /\ last.path.base = GAMEA_FM
    /\ last.path.dir # "" /\ dirs[last.path.dir]
    /\ disk[last.path].kind = "file" /\ disk[last.path].readable
    /\ ~disk[last.path].ioerr

\* C21 as stated: such a file of exactly 12,000 bytes is reported valid with
\* an empty reason.  (The signature is looked for at 0x3181, past the end of
\* a file of 12,000 bytes, whatever bytes the file holds.)
C21_ValidAt12000 ==
    (GameaInWritableDir /\ disk[last.path].size = 12000) =>
        last.valid /\ last.reason = ""

\* C21, amended: such a file is valid with an empty reason when it has
\* 12,681 to 16,384 bytes and holds the signature at 0x3181; with 12,000
\* bytes it is refused for its signature.
C21_ValidFromSignatureEnd ==
    GameaInWritableDir =>
        /\ (/\ disk[last.path].size >= SENTINEL_SIGNATURE_ADDR + Len(SENTINEL_SIGNATURE)
            /\ disk[last.path].size <= MAX_SAVE_FILE_SIZE
            /\ \A i \in 1..Len(SENTINEL_SIGNATURE) :
                  disk[last.path].data[SENTINEL_SIGNATURE_ADDR + i - 1]
                     = SENTINEL_SIGNATURE[i])
              => last.valid /\ last.reason = ""
        /\ disk[last.path].size = 12000 =>
              /\ ~last.valid
              /\ last.reason = "File does not appear to be a valid Sentinel Worlds save file (signature mismatch)"

\* The shortest file that holds the signature: 12,681 bytes, valid.
C21_Witness ==
    /\ GameaInWritableDir
    /\ disk[last.path].size = SENTINEL_SIGNATURE_ADDR + Len(SENTINEL_SIGNATURE)
    /\ last.valid /\ last.reason = ""

(***************************************************************************)
(* Claims about the address table (SpecTable).                             *)
(***************************************************************************)
\* The byte ranges of the fields of a crew table, with those of the party
\* and the ship: [addr, n] in the order load_save_game reads them.
FieldsOf(crew_addrs) ==
    SubSeq(LoadReads, 1, 6)
      \o CrewReads(crew_addrs[1]) \o CrewReads(crew_addrs[2])
      \o CrewReads(crew_addrs[3]) \o CrewReads(crew_addrs[4])
      \o CrewReads(crew_addrs[5])

NoOverlap(fields) ==
    \A i, j \in 1..Len(fields) :
        i < j => \/ fields[i].addr + fields[i].n <= fields[j].addr
                 \/ fields[j].addr + fields[j].n <= fields[i].addr

C1_RoundTrip ==
    (pc = "edit3" /\ ~last.edited) =>
        /\ last.ret = "True"
        /\ disk[EditPath] = hist.orig

\* The declared fields (by their place in LoadReads) to which the two
\* lists of writes give different values.
ChangedFields(old, new) == {i \in 1..Len(LoadReads) : new[i].value # old[i].value}

FieldRange(i) == LoadReads[i].addr .. (LoadReads[i].addr + LoadReads[i].n - 1)

\* before and after differ at no observed address outside the byte ranges
\* of the fields, and have the same length
SameOutside(fields, before, after) ==
    LET inside == UNION {FieldRange(i) : i \in fields}
    IN /\ after.size = before.size
       /\ \A x \in Tracked \ inside : after.data[x] = before.data[x]

\* C2: after an edit that changed one declared field F only, save_game
\* leaves the file different from its pre-save contents only inside F's byte
\* range, and of the same length.
C2_FieldIsolation ==
    (pc = "edit3" /\ last.edited) =>
        LET changed == ChangedFields(SaveWrites(hist.loaded), SaveWrites(save_game_data))
        IN Cardinality(changed) = 1 => SameOutside(changed, last.before, disk[EditPath])

\* The codes a list of typed lines names (int(value, 16) of each line that
\* is a number).
TypedCodes(lines) ==
    {py_int(lines[n], 16).val : n \in {m \in 1..Len(lines) : py_int(lines[m], 16).exc = "none"}}

EquipmentEdited == pc = "edit2" /\ last.op \in {"edit_equipment", "save_equipment"}

\* C7: an equipment edit changes a slot only to a code of the set declared
\* for the slot's class and changes nothing but equipment slots of the crew
\* member edited; a slot for which only codes outside its set were typed
\* keeps its value.
C7_SlotClassMembership ==
    EquipmentEdited =>
        LET old == last.before.crew[last.crew].equipment
            new == save_game_data.crew[last.crew].equipment
        IN /\ \A k \in 1..Len(EquipmentSlots) :
                 SlotValue(new, EquipmentSlots[k]) # SlotValue(old, EquipmentSlots[k])
                    => SlotValue(new, EquipmentSlots[k]) \in ValidFor(EquipmentSlots[k].cls)
           /\ save_game_data = [last.before EXCEPT !.crew[last.crew].equipment = new]
           /\ last.op = "edit_equipment" =>
                 \A k \in 1..Len(EquipmentSlots) :
                    TypedCodes(last.inputs[k]) \cap ValidFor(EquipmentSlots[k].cls) = {}
                       => SlotValue(new, EquipmentSlots[k]) = SlotValue(old, EquipmentSlots[k])

\* A weapon-only code (0x08) was typed for the armor slot and rejected, the
\* same pass stored a new weapon.
C7_Witness ==
    /\ EquipmentEdited
    /\ last.op = "edit_equipment"
    /\ last.exc = "none"
    /\ last.inputs[1] = << <<48, 120, 48, 56>>, <<>> >>
    /\ save_game_data.crew[last.crew].equipment.armor
          = last.before.crew[last.crew].equipment.armor
    /\ save_game_data.crew[last.crew].equipment.weapon
          # last.before.crew[last.crew].equipment.weapon
    /\ save_game_data.crew[last.crew].equipment.weapon = 27

\* The editors of a record of number fields, the record each edits, its
\* fields in the order asked and the values each accepts.
RecordEdits ==
    {"edit_ship_software", "edit_characteristics", "edit_abilities",
     "save_ship", "save_chars", "save_abilities"}

RecordOf(data, op, crew) ==
    IF op \in {"edit_ship_software", "save_ship"} THEN data.ship
    ELSE IF op \in {"edit_characteristics", "save_chars"}
      THEN data.crew[crew].characteristics
    ELSE data.crew[crew].abilities

NamesOf(op) ==
    IF op \in {"edit_ship_software", "save_ship"} THEN SHIP_SOFTWARE
    ELSE IF op \in {"edit_characteristics", "save_chars"} THEN CHARACTERISTICS
    ELSE ABILITIES

RangeOf(op) ==
    IF op = "edit_ship_software" THEN 1..MAX_SHIP_SOFTWARE
    ELSE IF op = "save_ship" THEN 0..MAX_SHIP_SOFTWARE
    ELSE 0..MAX_STAT

\* What was given for field i: the lines typed at its prompt (CLI), the text
\* of its entry (GUI).
GivenFor(op, inputs, i) ==
    IF op \in {"save_ship", "save_chars", "save_abilities"}
      THEN <<inputs[NamesOf(op)[i]]>>
      ELSE inputs[i]

InRange(op, text) == py_int(text, 10).exc = "none" /\ py_int(text, 10).val \in RangeOf(op)

OutOfRange(op, text) ==
    py_int(text, 10).exc = "none" /\ py_int(text, 10).val \notin RangeOf(op)

\* Field i was given a number out of range and no number in range.
Rejected(op, inputs, i) ==
    LET given == GivenFor(op, inputs, i)
    IN /\ \E n \in 1..Len(given) : OutOfRange(op, given[n])
       /\ \A n \in 1..Len(given) : ~InRange(op, given[n])

\* The lines of every prompt end where the prompt ends (at a number in
\* range or at Enter), so that inputs[i] is what field i was given.  (An
\* entry of the GUI holds one text.)
Answered(op, inputs) ==
    op \in {"save_ship", "save_chars", "save_abilities"} \/
    \A i \in 1..Len(NamesOf(op)) :
        LET given == GivenFor(op, inputs, i)
        IN /\ Len(given) > 0
           /\ Len(given[Len(given)]) = 0 \/ InRange(op, given[Len(given)])
           /\ \A n \in 1..(Len(given) - 1) :
                  Len(given[n]) > 0 /\ ~InRange(op, given[n])

\* C16: when one field of a multi-field edit (ship software, characteristics,
\* abilities) is given an out-of-range value, that field keeps its prior
\* value and every other field given a value in range takes it.
C16_RangeRejectionLocal ==
    (pc = "edit2" /\ last.op \in RecordEdits /\ last.exc = "none"
        /\ Answered(last.op, last.inputs)) =>
        LET old == RecordOf(last.before, last.op, last.crew)
            new == RecordOf(save_game_data, last.op, last.crew)
            names == NamesOf(last.op)
        IN (\E j \in 1..Len(names) : Rejected(last.op, last.inputs, j)) =>
              \A i \in 1..Len(names) :
                 LET given == GivenFor(last.op, last.inputs, i)
                 IN IF Rejected(last.op, last.inputs, i)
                      THEN new[names[i]] = old[names[i]]
                      ELSE InRange(last.op, given[Len(given)])
                              => new[names[i]] = py_int(given[Len(given)], 10).val

\* C15: whatever byte an equipment slot of the loaded file holds, showing the
\* crew member's equipment gives a name (the catalog's, or an Unknown
\* placeholder) and raises nothing: the CLI equipment editor, which shows the
\* equipment first, does not end with a KeyError.
C15_UnknownCodeShown ==
    (pc = "edit2" /\ last.op = "edit_equipment") =>
        /\ display_equipment(last.before, last.crew) = "none"
        /\ last.exc # "KeyError"

\* The codes the sentence gives each class of slot: the weapons and the
\* empty-slot sentinel for an on-hand slot; the general items, the
\* ammunition and the sentinel for an inventory slot.
GeneralItems == {0, 1, 2, 3, 5, 7, 32, 33, 34, 35, 57, 58, 59, 60, 61, 62, 63}

ClaimedFor(cls) ==
    IF cls = "onhand" THEN VALID_WEAPONS \cup {EMPTY_SLOT}
    ELSE GeneralItems \cup VALID_AMMO \cup {EMPTY_SLOT}

\* The two hexadecimal digits of a code, as typed.
HexText(code) ==
    LET digit(d) == IF d < 10 THEN 48 + d ELSE 87 + d
    IN <<digit(code \div 16), digit(code % 16)>>

\* The codes the prompt of a slot of the class returns when typed.
CliAccepts(cls) ==
    {code \in 0..255 :
        LET r == get_item_code(<<HexText(code)>>, ValidFor(cls))
        IN r.exc = "none" /\ ~r.none /\ r.val = code}

\* The codes Update Equipment can leave in slot k: one for each name the
\* slot's combobox can hold, the other comboboxes left as shown.
GuiStores(equipment, k) ==
    LET shown == [j \in 1..Len(EquipmentSlots) |->
                     name_or_unknown(SlotValue(equipment, EquipmentSlots[j]))]
    IN {SlotValue(save_equipment(equipment, [shown EXCEPT ![k] = name]).values,
                  EquipmentSlots[k]) :
           name \in ComboNames(equipment, EquipmentSlots[k])}

\* C17: in the CLI editor and in the GUI editor alike, an on-hand slot
\* accepts exactly VALID_WEAPONS and the empty-slot sentinel, an inventory
\* slot exactly the general items, the ammunition and the sentinel.  (In the
\* GUI a slot can also keep the code it holds.)
C17_SlotAcceptanceSets ==
    pc = "edit1" =>
        \A crew_num \in 1..5, k \in 1..Len(EquipmentSlots) :
            LET slot == EquipmentSlots[k]
                equipment == save_game_data.crew[crew_num].equipment
                held == {SlotValue(equipment, slot)}
            IN slot.cls \in {"onhand", "inventory"} =>
                  /\ CliAccepts(slot.cls) = ClaimedFor(slot.cls)
                  /\ GuiStores(equipment, k) \cup held = ClaimedFor(slot.cls) \cup held

EditOps ==
    {"edit_party_cash", "edit_light_energy", "edit_ship_software", "edit_hp",
     "edit_characteristics", "edit_abilities", "edit_equipment",
     "save_cash", "save_light", "save_ship", "save_hp", "save_chars",
     "save_abilities", "save_equipment"}

\* C19: between the load and save_game no edit operation (cash, light
\* energy, ship software, HP, characteristics, abilities, equipment) changes
\* a byte of the save file: a step of an editor leaves every file as it is,
\* and the save file changes only in a step of save_game.
C19_ModelDetachedFromFile ==
    [][/\ (last' # last /\ last'.op \in EditOps) => disk' = disk
       /\ disk' # disk => last'.op = "save_game"]_vars

\* The cash of the model was set to 7 by a CLI or GUI editor and the file
\* still holds the bytes it was loaded from.
C19_Witness ==
    /\ pc = "edit2"
    /\ last.op \in {"edit_party_cash", "save_cash"}
    /\ save_game_data.party.cash = 7
    /\ hist.loaded.party.cash # 7
    /\ disk[EditPath] = hist.orig
    /\ load_save_game(disk, EditPath).data = hist.loaded

\* C23: save_game sets app_state['has_changes'] to False exactly when it
\* returns True; when it returns False the flag keeps the value it had.
C23_FlagClearedIffSaved ==
    [][(last' # last /\ last'.op = "save_game") =>
          /\ last'.ret = "True" => ~app_state'.has_changes
          /\ last'.ret # "True" => app_state'.has_changes = app_state.has_changes]_vars

\* An edit was pending, save_game returned False and the flag is still set.
C23_Witness ==
    /\ pc = "edit3" /\ last.op = "save_game"
    /\ last.edited
    /\ last.ret = "False"
    /\ app_state.has_changes
    /\ save_game_data # hist.loaded

CliEditOps ==
    {"edit_party_cash", "edit_light_energy", "edit_ship_software", "edit_hp",
     "edit_characteristics", "edit_abilities", "edit_equipment"}

\* C25: a CLI edit that left every model value as it was (Enter pressed, or
\* the current value entered again) leaves app_state['has_changes'] as it
\* was, for every CLI editor.
C25_FlagOnlyOnChange ==
    (pc = "edit2" /\ last.op \in CliEditOps /\ last.exc = "none"
        /\ save_game_data = last.before) =>
        app_state.has_changes = last.flag

\* C26: a failed save is atomic: when save_game returns False the save file
\* is byte-for-byte what it was before the call.
C26_FailedSaveAtomic ==
    (pc = "edit3" /\ last.op = "save_game" /\ last.ret = "False") =>
        disk[EditPath] = last.before

\* C27: between operations, when the model differs from the model as loaded
\* the unsaved-changes flag is True (app_state['has_changes'] after a CLI
\* editor has returned, self.has_changes after a GUI update), also after an
\* update that was rejected part-way.
C27_DirtyFlagSound ==
    (pc = "edit2" /\ last.exc = "none" /\ save_game_data # hist.loaded) =>
        IF last.op \in CliEditOps THEN app_state.has_changes ELSE gui.has_changes

(***************************************************************************)
(* Claims about the sessions (Spec).                                       *)
(***************************************************************************)
OpenOps == {"main", "open_file"}
SaveOps == {"handle_main_menu", "save_file", "on_closing"}

\* C5: create_backup, load_save_game and save_game are called only on a path
\* validate_save_file has returned valid for; an attempt to open a file that
\* fails the validation is aborted (the CLI exits, the window keeps its
\* model and its file) with no call made and the disk as it was; every file
\* a step changes is a validated path or the .bak of one.
C5_ValidationGate ==
    /\ [](\A c \in hist.invoked : c[2] \in hist.validated)
    /\ [][(last'.op \in OpenOps /\ ~last'.valid) =>
             /\ disk' = disk
             /\ last'.calls = {}
             /\ hist'.invoked = hist.invoked
             /\ last'.op = "main" => pc' = "exited"
             /\ last'.op = "open_file" => UNCHANGED <<save_game_data, app_state, gui>>]_vars
    /\ [][\A q \in DOMAIN disk :
             disk'[q] # disk[q] => \E p \in hist'.validated : q \in {p, BakPath(p)}]_vars

\* With gamea.fm open in the window, game1.fm was picked and refused.
C5_Witness ==
    /\ pc = "gui_loaded"
    /\ last.op = "open_file"
    /\ ~last.valid
    /\ last.path = [dir |-> "/saves", base |-> <<103, 97, 109, 101, 49, 46, 102, 109>>]
    /\ gui.current_file = EditPath
    /\ <<"load_save_game", EditPath>> \in hist.invoked
    /\ disk[BakPath(last.path)] = NoFile

\* C6: when save_game is called on a file for the first time since
\* create_backup last ran for it, create_backup has run for it, and if that
\* run returned True the .bak holds the bytes the file has before the write;
\* a step that calls create_backup leaves the original file as it was.
C6_BackupPrecedesMutation ==
    [][\A p \in DOMAIN disk :
          /\ (last'.op \in SaveOps /\ <<"save_game", p>> \in last'.calls
                                   /\ p \notin hist.written) =>
                /\ <<"create_backup", p>> \in hist.invoked
                /\ p \in hist.backup_ok =>
                      /\ disk[BakPath(p)].kind = "file"
                      /\ disk[BakPath(p)].size = disk[p].size
                      /\ disk[BakPath(p)].data = disk[p].data
          /\ (last'.op \in OpenOps /\ <<"create_backup", p>> \in last'.calls) =>
                disk'[p] = disk[p]]_vars

\* save_game has rewritten gamea.fm with an edit in it, and gamea.fm.bak,
\* which create_backup made, holds the bytes from before.
C6_Witness ==
    /\ last.op \in SaveOps
    /\ last.ret = "True"
    /\ last.path = EditPath
    /\ EditPath \in hist.backup_ok
    /\ disk[BakPath(EditPath)].kind = "file"
    /\ disk[BakPath(EditPath)].data # disk[EditPath].data

\* Some read of load_save_game finds fewer bytes in f than the field is wide.
ShortRead(f) == \E i \in 1..Len(LoadReads) : ReadExc(f, LoadReads[i]) # "none"

LoadedShort ==
    /\ last.op \in OpenOps
    /\ <<"load_save_game", last.path>> \in last.calls
    /\ ShortRead(disk[last.path])

\* C8: a load_save_game that meets a short read raises and returns no model,
\* and save_game_data, the current file (of the program and of the window)
\* and the loaded flag are what they were when load_save_game was called.
C8_DecodeAllOrNothing ==
    LoadedShort =>
        /\ last.load_exc = "IOError"
        /\ last.returned = EMPTY_DICT
        /\ save_game_data = last.at_load.data
        /\ app_state.current_file = last.at_load.app.current_file
        /\ app_state.file_loaded = last.at_load.app.file_loaded
        /\ gui.current_file = last.at_load.gui.current_file

\* With gamea.fm loaded in the window, gameb.fm (cut after two of the four
\* ship bytes) was opened: the load failed and gamea.fm's model is kept.
C8_Witness ==
    /\ LoadedShort
    /\ last.op = "open_file"
    /\ disk[last.path].size = SHIP_ENGINE_ADDR
    /\ last.load_exc = "IOError"
    /\ save_game_data # EMPTY_DICT
    /\ gui.current_file = EditPath
    /\ app_state.file_loaded

\* C18: when create_backup fails (it returns False, nothing is raised), the
\* session goes on as after a successful backup: no file but the .bak is
\* touched, the file is loaded, and the menu or window is left with the
\* loaded model, from where the edits and save_game run.
C18_BackupBestEffort ==
    [][(/\ last' # last
        /\ last'.op \in OpenOps
        /\ <<"create_backup", last'.path>> \in last'.calls
        /\ last'.path \notin hist'.backup_ok) =>
           LET filename == last'.path
               r == load_save_game(create_backup(disk, filename, "ok").disk, filename)
           IN /\ \A p \in DOMAIN disk \ {BakPath(filename)} : disk'[p] = disk[p]
              /\ last'.load_exc = r.exc
              /\ r.exc = "none" =>
                    /\ save_game_data' = r.data
                    /\ app_state' = [app_state EXCEPT !.current_file = filename,
                                                      !.file_loaded = TRUE]
                    /\ pc' = IF last'.op = "main" THEN "cli_menu" ELSE "gui_loaded"
                    /\ last'.op = "open_file" =>
                          gui' = [gui EXCEPT !.current_file = filename,
                                             !.has_changes = FALSE]]_vars

\* The backup of the file failed while writing, the party cash was then set
\* to 7 and save_game stored it.
C18_Witness ==
    /\ last.op \in SaveOps
    /\ last.ret = "True"
    /\ last.path = EditPath
    /\ <<"create_backup", EditPath>> \in hist.invoked
    /\ EditPath \notin hist.backup_ok
    /\ disk[BakPath(EditPath)].size = 0
    /\ save_game_data.party.cash = 7
    /\ load_save_game(disk, EditPath).data = save_game_data

\* C24: the CLI session ends while app_state['has_changes'] is True only
\* through the quit command of the menu, answered 'Y' at its confirmation
\* (the one step of handle_main_menu that ends the loop without calling
\* save_game).
C24_QuitOnlyConfirmed ==
    (pc = "exited" /\ last.op # "on_closing" /\ app_state.has_changes) =>
        /\ last.op = "handle_main_menu"
        /\ last.calls = {}

\* C28: when the window is closed with unsaved changes and the answer is Yes,
\* the window is destroyed only after save_game has written the changes: if
\* the save did not succeed the editor stays open.
C28_CloseOnlyAfterSave ==
    (last.op = "on_closing" /\ last.calls # {} /\ last.ret # "True") =>
        /\ gui.alive
        /\ pc # "exited"

GuiOps ==
    {"open_file", "save_file", "save_cash", "save_light", "save_ship", "save_hp",
     "save_chars", "save_abilities", "save_equipment"}

\* C29: in the GUI, after every completed operation (open_file, an editor
\* update, save_file), self.has_changes equals app_state['has_changes'].
C29_FlagsAgree ==
    (pc \in {"gui_idle", "gui_loaded"} /\ last.op \in GuiOps) =>
        gui.has_changes = app_state.has_changes

\* C30: once path + ".bak" has been written for a save file, it holds the
\* bytes the save file had before the edits of the run, whatever is done
\* later (saving edits, opening another file, opening the same file again).
C30_BackupKeepsPreEdit ==
    EditPath \in hist.backup_ok =>
        disk[BakPath(EditPath)].data
           = SampleFile([kind |-> "clean", crew |-> 0], FULL_SIZE).data

=============================================================================
